---- MODULE Spec2Model ----
(***************************************************************************)
(* LLMCallGateway: the request-serving paths of LLMService (non-streaming  *)
(* chat, streaming chat, embeddings), the MetricsCollector and the         *)
(* LLMInteractionLogger they report to.                                    *)
(*                                                                         *)
(* One cooperative task serves each inbound call.  A task runs atomically  *)
(* between two suspension points (an await of the provider, or a yield of  *)
(* the stream generator), so every action below is the code between two    *)
(* such points.                                                            *)
(***************************************************************************)
EXTENDS Integers, Sequences, FiniteSets, TLC

\* Python's None where a string is expected; no string of the model is
\* spelled like it.  An optional value of another type is <<>> (None) or <<v>>.
None == "None"

\* ---------------------------------------------------------------- bounds
\* Requests served by one run of the service.
MaxReq == 1
\* Fragments the provider delivers on one stream of the service run.
MaxFrags == 2
\* Fragments of the single stream of the aggregator run.
MaxStreamFrags == 3
\* Calls of start_request in a run that drives the collector directly.
MaxStarts == 3
\* Largest max_history a directly driven collector is constructed with.
MaxHistory == 2

\* Tool calls in a provider's message handed to the normalizing functions.
MaxToolCalls == 2
\* Threads that call the collector concurrently.
MaxThreads == 3
\* Request ids a directly driven logger is called with.
MaxLogIds == 2
\* Records a directly driven logger writes to its sink.
MaxSink == 2

\* Longest base64 embedding and longest float-array embedding handed to
\* the logger.
MaxEmbeddingChars == 12

MaxEmbeddingFloats == 5

\* Requests started in a run that asks for the hourly trends.
MaxTrendStarts == 2

\* Blocks in a list content handed to the flattening.
MaxBlocks == 3

\* Longest text the token estimator is called with.
MaxTextLen == 4

\* Seconds in an hour bucket.
SecondsPerHour == 3600

\* Hours in a day: the '%H' of a trend label.
HoursPerDay == 24

\* get_metrics_trends: `hours` above 168 or below 1 becomes 24.
MaxTrendHours == 168

DefaultTrendHours == 24

\* MetricsCollector.__init__(max_history=10000): the global instance.
DefaultMaxHistory == 10000

\* calculate_tokens_estimate counts '\u4e00' <= char <= '\u9fff' as Chinese.
HanFirst == 19968

HanLast == 40959

Models == {"m1", "m2"}

VARIABLES
    metrics_collector,      \* the MetricsCollector instance (its fields)
    llm_interaction_logger, \* the LLMInteractionLogger instance and its sink
    next_id,                \* request ids handed out so far (uuid4: fresh)
    task,                   \* request id -> the task serving it
    effects                 \* request id -> success flags of the calls of
                            \* complete_request that took effect for it

vars == <<metrics_collector, llm_interaction_logger, next_id, task, effects>>

Ids == 1..(MaxReq + MaxStarts + 2)

\* ------------------------------------------------------ helper operators
Max(a, b) == IF a >= b THEN a ELSE b

\* ------------------------------------------------------ MetricsCollector
\* RequestMetrics as start_request creates it.
RequestMetrics(context) ==
    [request_id        |-> context.request_id,
     model             |-> context.model,
     start_time        |-> context.start_time,
     success           |-> TRUE,
     error_message     |-> None,
     prompt_tokens     |-> 0,
     completion_tokens |-> 0,
     total_tokens      |-> 0,
     stream            |-> context.stream,
     request_type      |-> context.request_type,
     completed         |-> FALSE]

\* One bucket of _hourly_stats.
HourStats(requests, tokens, errors) ==
    [requests |-> requests, tokens |-> tokens, errors |-> errors]

\* time.strftime('%Y-%m-%d-%H', time.localtime(t)): the hour t falls in,
\* with t in seconds.
HourKey(t) == t \div SecondsPerHour

MetricsCollectorInit(max_history) ==
    [max_history        |-> max_history,
     lock               |-> 0,  \* self._lock: 0 when free, else its holder
     active_requests    |-> <<>>,
     completed_requests |-> <<>>,
     total_requests     |-> 0,
     total_tokens       |-> 0,
     success_count      |-> 0,
     model_usage        |-> [m \in {} |-> 0],
     hourly_stats       |-> [h \in {} |-> HourStats(0, 0, 0)]]

start_request(mc, context) ==
    [mc EXCEPT !.active_requests =
        [id \in DOMAIN mc.active_requests \cup {context.request_id} |->
            IF id = context.request_id THEN RequestMetrics(context)
            ELSE mc.active_requests[id]]]

\* A full deque that turns the new entry away.
DequeAppend_keeps_oldest(dq, x, maxlen) ==
    IF Len(dq) >= maxlen THEN dq ELSE Append(dq, x)

\* deque(maxlen=max_history).append: the oldest entry leaves when full.
DequeAppend(dq, x, maxlen) ==
    LET s == Append(dq, x)
    IN  IF Len(s) > maxlen THEN SubSeq(s, Len(s) - maxlen + 1, Len(s)) ELSE s

\* _update_aggregated_stats that leaves the hour's error count alone.
_update_aggregated_stats_skips_errors(mc, metrics) ==
    [mc EXCEPT
        !.total_requests = @ + 1,
        !.total_tokens   = @ + metrics.total_tokens,
        !.success_count  = IF metrics.success THEN @ + 1 ELSE @,
        !.model_usage    =
            [m \in DOMAIN mc.model_usage \cup {metrics.model} |->
                (IF m \in DOMAIN mc.model_usage THEN mc.model_usage[m] ELSE 0)
                + (IF m = metrics.model THEN 1 ELSE 0)],
        !.hourly_stats   =
            LET hour_key == HourKey(metrics.start_time)
                hour_stats == IF hour_key \in DOMAIN mc.hourly_stats
                              THEN mc.hourly_stats[hour_key]
                              ELSE HourStats(0, 0, 0)
            IN  [h \in DOMAIN mc.hourly_stats \cup {hour_key} |->
                    IF h = hour_key
                    THEN HourStats(hour_stats.requests + 1,
                                   hour_stats.tokens + metrics.total_tokens,
                                   hour_stats.errors)
                    ELSE mc.hourly_stats[h]]]

_update_aggregated_stats(mc, metrics) ==
    [mc EXCEPT
        !.total_requests = @ + 1,
        !.total_tokens   = @ + metrics.total_tokens,
        !.success_count  = IF metrics.success THEN @ + 1 ELSE @,
        !.model_usage    =
            [m \in DOMAIN mc.model_usage \cup {metrics.model} |->
                (IF m \in DOMAIN mc.model_usage THEN mc.model_usage[m] ELSE 0)
                + (IF m = metrics.model THEN 1 ELSE 0)],
        !.hourly_stats   =
            LET hour_key == HourKey(metrics.start_time)
                hour_stats == IF hour_key \in DOMAIN mc.hourly_stats
                              THEN mc.hourly_stats[hour_key]
                              ELSE HourStats(0, 0, 0)
            IN  [h \in DOMAIN mc.hourly_stats \cup {hour_key} |->
                    IF h = hour_key
                    THEN HourStats(hour_stats.requests + 1,
                                   hour_stats.tokens + metrics.total_tokens,
                                   hour_stats.errors +
                                       (IF metrics.success THEN 0 ELSE 1))
                    ELSE mc.hourly_stats[h]]]

\* complete_request whose pop is forgotten: the entry stays active.
complete_request_keeps_active(mc, request_id, success, error_message, prompt_tokens, completion_tokens, total_tokens) ==
    IF request_id \notin DOMAIN mc.active_requests THEN mc
    ELSE LET metrics == [mc.active_requests[request_id] EXCEPT
                            !.completed = TRUE, !.success = success]
         IN  _update_aggregated_stats(
                [mc EXCEPT !.completed_requests =
                               DequeAppend(@, metrics, mc.max_history)],
                metrics)

\* complete_request that counts a request it does not know.
complete_request_counts_unknown(mc, request_id, success, error_message, prompt_tokens, completion_tokens, total_tokens) ==
    IF request_id \notin DOMAIN mc.active_requests
    THEN [mc EXCEPT !.total_requests = @ + 1]
    ELSE mc

complete_request(mc, request_id, success, error_message, prompt_tokens, completion_tokens, total_tokens) ==
    IF request_id \notin DOMAIN mc.active_requests THEN mc
    ELSE LET metrics == [mc.active_requests[request_id] EXCEPT
                !.completed         = TRUE,
                !.success           = success,
                !.error_message     = error_message,
                !.prompt_tokens     = prompt_tokens,
                !.completion_tokens = completion_tokens,
                !.total_tokens      = IF total_tokens # <<>> THEN total_tokens[1]
                                      ELSE prompt_tokens + completion_tokens]
             popped == [id \in DOMAIN mc.active_requests \ {request_id} |->
                            mc.active_requests[id]]
         IN  _update_aggregated_stats(
                [mc EXCEPT !.active_requests    = popped,
                           !.completed_requests =
                               DequeAppend(@, metrics, mc.max_history)],
                metrics)

reset_stats(mc) == [MetricsCollectorInit(mc.max_history) EXCEPT !.lock = mc.lock]

\* get_current_stats at time `now`: average_latency is left out, and
\* success_rate is the pair <<successes, requests>> of its quotient.
get_current_stats(mc, now) ==
    IF mc.total_requests = 0
    THEN [total_requests |-> 0, total_tokens |-> 0, success_rate |-> <<1, 1>>,
          active_requests |-> 0, models_used |-> [m \in {} |-> 0],
          requests_per_hour |-> 0, tokens_per_hour |-> 0]
    ELSE LET current_hour == HourKey(now)
             hour_stats == IF current_hour \in DOMAIN mc.hourly_stats
                           THEN mc.hourly_stats[current_hour]
                           ELSE HourStats(0, 0, 0)
         IN  [total_requests    |-> mc.total_requests,
              total_tokens      |-> mc.total_tokens,
              success_rate      |-> <<mc.success_count, mc.total_requests>>,
              active_requests   |-> Cardinality(DOMAIN mc.active_requests),
              models_used       |-> mc.model_usage,
              requests_per_hour |-> hour_stats.requests,
              tokens_per_hour   |-> hour_stats.tokens]

\* list[-limit:] of Python: the last `limit` items, and the whole list for
\* limit = 0 (since -0 is 0).
LastItems(list, limit) ==
    IF limit = 0 \/ limit >= Len(list) THEN list
    ELSE SubSeq(list, Len(list) - limit + 1, Len(list))

Reverse(list) == [i \in 1..Len(list) |-> list[Len(list) + 1 - i]]

get_recent_requests(mc, limit) == Reverse(LastItems(mc.completed_requests, limit))

RECURSIVE SumTokens(_)
\* The sum of total_tokens over a list of entries.
SumTokens(requests) ==
    IF requests = <<>> THEN 0
    ELSE requests[1].total_tokens + SumTokens(Tail(requests))

\* get_model_stats that reads the per-model counters instead of the history.
get_model_stats_from_counters(mc) ==
    [m \in DOMAIN mc.model_usage |->
        [requests |-> mc.model_usage[m], tokens |-> 0,
         success_count |-> 0, error_count |-> 0, success_rate |-> <<0, 0>>]]

\* get_model_stats: the per-model figures computed from the completed
\* history; the durations are left out, and success_rate is the pair
\* <<successes, requests>> of its quotient.
get_model_stats(mc) ==
    LET history == mc.completed_requests
        Of(m) == SelectSeq(history, LAMBDA request : request.model = m)
        Successes(m) == Len(SelectSeq(Of(m), LAMBDA request : request.success))
    IN  [m \in {history[i].model : i \in 1..Len(history)} |->
            [requests      |-> Len(Of(m)),
             tokens        |-> SumTokens(Of(m)),
             success_count |-> Successes(m),
             error_count   |-> Len(Of(m)) - Successes(m),
             success_rate  |-> <<Successes(m), Len(Of(m))>>]]

\* The calls of complete_request that took effect (returned the entry, not
\* None), per request id: eff after one more call on collector mc.
Observe(eff, mc, request_id, success) ==
    IF request_id \in DOMAIN mc.active_requests
    THEN [eff EXCEPT ![request_id] = Append(@, success)]
    ELSE eff

\* -------------------------------------------------- LLMInteractionLogger
LoggerInit == [interactions |-> <<>>, sink |-> <<>>]

start_interaction(lg, request_id, provider, request_data) ==
    [lg EXCEPT !.interactions =
        [id \in DOMAIN lg.interactions \cup {request_id} |->
            IF id = request_id
            THEN [request_id          |-> request_id,
                  downstream_request  |-> request_data,
                  downstream_response |-> <<>>,
                  status              |-> "pending",
                  error               |-> None]
            ELSE lg.interactions[id]]]

\* An embedding of a response item: a base64 string (the sequence of its
\* characters), an array of floats (each written as JSON writes it), or
\* absent when the item has no such key.
Base64Embedding(text) == [kind |-> "str", text |-> text, items |-> <<>>]

FloatEmbedding(items) == [kind |-> "list", text |-> <<>>, items |-> items]

AbsentEmbedding == [kind |-> "absent", text |-> <<>>, items |-> <<>>]

\* The function that returns its copy of the data as it came.
_truncate_embedding_fields_keeps_all(data) == data

\* _truncate_embedding_fields: a deep copy in which the embedding of every
\* item of data["data"] is cut.
_truncate_embedding_fields(data) ==
    LET Cut(embedding) ==
            IF embedding.kind = "str" /\ Len(embedding.text) > 10
            THEN [embedding EXCEPT
                     !.text = SubSeq(@, 1, 10) \o <<".", ".", ".">>]
            ELSE IF embedding.kind = "list" /\ Len(embedding.items) > 3
            THEN [embedding EXCEPT !.items = SubSeq(@, 1, 3) \o <<"...">>]
            ELSE embedding
        CutItem(item) ==
            IF "embedding" \in DOMAIN item
            THEN [item EXCEPT !.embedding = Cut(@)] ELSE item
    IN  IF "data" \in DOMAIN data
        THEN [data EXCEPT !.data = [i \in 1..Len(@) |-> CutItem(@[i])]]
        ELSE data

\* complete_interaction whose final del is forgotten.
complete_interaction_keeps_entry(lg, request_id, response_data, success, error) ==
    IF request_id \notin DOMAIN lg.interactions THEN lg
    ELSE [lg EXCEPT !.sink = Append(@, [lg.interactions[request_id] EXCEPT
                !.downstream_response = <<_truncate_embedding_fields(response_data)>>,
                !.status = IF success THEN "success" ELSE "error"])]

complete_interaction(lg, request_id, response_data, success, error) ==
    IF request_id \notin DOMAIN lg.interactions THEN lg
    ELSE LET interaction == [lg.interactions[request_id] EXCEPT
                !.downstream_response = <<_truncate_embedding_fields(response_data)>>,
                !.status = IF success THEN "success" ELSE "error",
                !.error  = IF error # None THEN error ELSE @]
         IN  [interactions |->
                 [id \in DOMAIN lg.interactions \ {request_id} |->
                     lg.interactions[id]],
              sink |-> Append(lg.sink, interaction)]

log_error_interaction(lg, request_id, error, context) ==
    IF request_id \in DOMAIN lg.interactions
    THEN complete_interaction(lg, request_id,
                              [error_context |-> context], FALSE, error)
    ELSE [lg EXCEPT !.sink = Append(@,
            [request_id |-> request_id, status |-> "error",
             error |-> error, context |-> context])]

\* ------------------------------------------------------------- requests
\* Message content: None, a string, or a list of content blocks.
NullContent == [kind |-> "null"]
StrContent(t) == [kind |-> "str", text |-> t]
ListContent(b) == [kind |-> "list", blocks |-> b]

\* Python truthiness of a content value.
Truthy(content) ==
    CASE content.kind = "null" -> FALSE
      [] content.kind = "str"  -> content.text # ""
      [] content.kind = "list" -> content.blocks # <<>>

\* ChatMessage(role, content, name, tool_calls, tool_call_id, function_call)
ChatMessage(role, content, tool_calls, tool_call_id, function_call) ==
    [role |-> role, content |-> content, name |-> None,
     tool_calls |-> tool_calls, tool_call_id |-> tool_call_id,
     function_call |-> function_call]

SearchCall ==
    [id |-> "call_1", type |-> "function",
     function |-> [name |-> "search", arguments |-> "{}"]]

UserText    == ChatMessage("user", StrContent("hi"), <<>>, None, <<>>)
UserBlocks  == ChatMessage("user",
                   ListContent(<<[type |-> "text", text |-> "hi"]>>),
                   <<>>, None, <<>>)
AssistantToolCall == ChatMessage("assistant", NullContent, <<SearchCall>>,
                                 None, <<>>)
AssistantEmpty    == ChatMessage("assistant", NullContent, <<>>, None, <<>>)
ToolResult  == ChatMessage("tool", StrContent("ok"), <<>>, "call_1", <<>>)
\* A legacy function call beside null content, and one that is the empty dict.
AssistantFunctionCall ==
    ChatMessage("assistant", NullContent, <<>>, None,
                <<[name |-> "get_weather", arguments |-> "{}"]>>)
AssistantEmptyFunctionCall ==
    ChatMessage("assistant", NullContent, <<>>, None, << [x \in {} |-> x] >>)
\* A tool call beside empty string content, and a result with an empty id.
AssistantToolCallText == ChatMessage("assistant", StrContent(""), <<SearchCall>>, None, <<>>)
ToolResultNoId == ChatMessage("tool", StrContent("ok"), <<>>, "", <<>>)

\* The conversations a chat request of the service run carries: string
\* content, a list of content blocks, and null content beside a tool call.
Conversations ==
    { <<UserText>>,
      <<UserBlocks>>,
      <<UserText, AssistantToolCall, ToolResult>> }

\* A request without tool fields: tools, tool_choice, functions and
\* function_call default to None (<<>>; <<v>> when given).
ChatCompletionRequest(model, messages, stream) ==
    [model |-> model, messages |-> messages, stream |-> stream,
     tools |-> <<>>, tool_choice |-> <<>>, functions |-> <<>>, function_call |-> <<>>]

\* The request with its tool fields given.
WithTools(request, tools, tool_choice, functions, function_call) ==
    [request EXCEPT !.tools = tools, !.tool_choice = tool_choice,
                    !.functions = functions, !.function_call = function_call]

\* Python truthiness of an optional string.
StrTruthy(x) == x # None /\ x # ""

\* Python truthiness of an optional dict <<>> / <<d>>, where the empty
\* dict is the record without fields.
DictTruthy(d) == d # <<>> /\ DOMAIN d[1] # {}

\* The loop body that forwards the content as it came.
PrepareMessage_keeps_content(msg) ==
    [role |-> msg.role, content |-> msg.content,
     name |-> msg.name, tool_call_id |-> msg.tool_call_id,
     function_call |-> msg.function_call, tool_calls |-> msg.tool_calls]

\* The loop body that forgets the id of the tool call a result answers.
PrepareMessage_drops_tool_call_id(msg) ==
    [role |-> msg.role, content |-> msg.content,
     name |-> msg.name, tool_call_id |-> None,
     function_call |-> msg.function_call, tool_calls |-> msg.tool_calls]

\* One message of the downstream request (the loop body of
\* _prepare_litellm_request).  An absent key is None, or <<>> for
\* tool_calls and function_call; a key is set only for a truthy value.
PrepareMessage(msg) ==
    [role    |-> msg.role,
     content |-> IF msg.content.kind # "null" THEN msg.content
                 ELSE IF msg.tool_calls # <<>> \/ DictTruthy(msg.function_call)
                      THEN NullContent
                      ELSE StrContent(""),
     name          |-> IF StrTruthy(msg.name) THEN msg.name ELSE None,
     tool_call_id  |-> IF StrTruthy(msg.tool_call_id) THEN msg.tool_call_id ELSE None,
     function_call |-> IF DictTruthy(msg.function_call) THEN msg.function_call ELSE <<>>,
     tool_calls    |-> msg.tool_calls]

\* The downstream request; a key it does not have is <<>>.  The sampling
\* parameters (temperature, max_tokens, ...) are left out.
_prepare_litellm_request(request) ==
    [model    |-> request.model,
     messages |-> [i \in 1..Len(request.messages) |->
                      PrepareMessage(request.messages[i])],
     stream   |-> request.stream,
     tools         |-> request.tools,
     functions     |-> IF request.tools # <<>> THEN <<>> ELSE request.functions,
     tool_choice   |-> request.tool_choice,
     function_call |-> IF request.tool_choice # <<>> THEN <<>>
                       ELSE request.function_call]

\* ------------------------------------------------------------- provider
\* What the provider call (litellm) hands back is the environment's choice.
Usage(p, c, t) == [prompt_tokens |-> p, completion_tokens |-> c, total_tokens |-> t]

\* A non-streaming completion: id and the message role are None when the
\* provider left them out.
Completion(id, role, usage) == [id |-> id, model |-> "m1", role |-> role, usage |-> usage]

Completions ==
    { Completion("cmpl", "assistant", <<Usage(5, 3, 8)>>),
      Completion("cmpl", "assistant", <<Usage(5, 3, 9)>>),
      Completion("cmpl", "assistant", <<>>),
      Completion("cmpl", None, <<Usage(5, 3, 8)>>),
      Completion(None, "assistant", <<Usage(5, 3, 8)>>) }

\* The embedding of the service run: an array of four floats.
Vec == FloatEmbedding(<<"0.1", "0.2", "0.3", "0.4">>)

\* An embedding response with one item: embedding is absent when the item
\* has no such key, index is None when the provider left it out.
Embedding(embedding, index, usage) ==
    [data |-> <<[embedding |-> embedding, index |-> index]>>, model |-> "m1",
     usage |-> usage]

Embeddings ==
    { Embedding(Vec, "0", <<[prompt_tokens |-> 4, total_tokens |-> 4]>>),
      Embedding(Vec, "0", <<>>),
      Embedding(AbsentEmbedding, "0", <<>>),
      Embedding(Vec, None, <<[prompt_tokens |-> 4, total_tokens |-> 4]>>) }

\* time.time() when a request of the service run is received: the run
\* falls within one hour.
ServiceStartTime == 2 * SecondsPerHour

\* ------------------------------------------------------ the shared state
\* The collector, the logger and the record of effective completions, as
\* one value the handlers thread through their calls.
Shared == [mc |-> metrics_collector, lg |-> llm_interaction_logger, eff |-> effects]

ThenComplete(S, request_id, success, error_message, p, c, t) ==
    [S EXCEPT !.mc  = complete_request(S.mc, request_id, success,
                                       error_message, p, c, t),
              !.eff = Observe(S.eff, S.mc, request_id, success)]

ThenLogError(S, request_id, error, context) ==
    [S EXCEPT !.lg = log_error_interaction(S.lg, request_id, error, context)]

ThenCompleteInteraction(S, request_id, response_data) ==
    [S EXCEPT !.lg = complete_interaction(S.lg, request_id, response_data,
                                          TRUE, None)]

Commit(S) ==
    /\ metrics_collector' = S.mc
    /\ llm_interaction_logger' = S.lg
    /\ effects' = S.eff

\* ----------------------------------------------------------------- tasks
NewTask(kind, pc, llm_request) ==
    [kind |-> kind, pc |-> pc, llm_request |-> llm_request,
     result   |-> <<>>,  \* what a non-streaming caller got
     out      |-> <<>>,  \* the events the stream's caller got, in order
     received |-> <<>>,  \* the fragments the provider delivered, in order
     exhausted       |-> FALSE,  \* the provider's stream ended without raising
     provider_raised |-> FALSE,  \* the provider call or its stream raised
     accumulated_content |-> "", chunk_count |-> 0, finish_reason |-> None,
     prompt_tokens |-> 0, completion_tokens |-> 0,
     tool_call_accumulator |-> <<>>, function_call_accumulator |-> <<>>]

Started == DOMAIN task

SetTask(r, t) == task' = [id \in Started \cup {r} |-> IF id = r THEN t ELSE task[id]]

\* The except clause of create_chat_completion: the handler's error reaches
\* it after the handler's own except clause logged it.
ChatExcept(S, request_id, e) ==
    ThenComplete(ThenLogError(S, request_id, e, "create_chat_completion"),
                 request_id, FALSE, e, 0, 0, <<>>)

\* _handle_non_stream_completion once acompletion returned `response`, with
\* the except clauses an error passes through.  [S, result].
_handle_non_stream_completion(S, request_id, response) ==
    IF response.role = None
    THEN \* ChatMessage(role=None) is rejected before anything is completed
         [S |-> ChatExcept(ThenLogError(S, request_id, "ValidationError",
                                        "non_stream_completion"),
                           request_id, "ValidationError"),
          result |-> [status |-> 500]]
    ELSE LET usage == response.usage
             response_data == [id |-> response.id, role |-> response.role,
                               usage |-> IF usage # <<>> THEN usage[1]
                                         ELSE Usage(0, 0, 0)]
             S1 == ThenCompleteInteraction(S, request_id, response_data)
             p  == IF usage # <<>> THEN usage[1].prompt_tokens ELSE 0
             c  == IF usage # <<>> THEN usage[1].completion_tokens ELSE 0
             S2 == ThenComplete(S1, request_id, TRUE, None, p, c, <<>>)
         IN  IF response.id = None
             THEN \* ChatCompletionResponse(id=None) is rejected
                  [S |-> ChatExcept(ThenLogError(S2, request_id, "ValidationError",
                                                 "non_stream_completion"),
                                    request_id, "ValidationError"),
                   result |-> [status |-> 500]]
             ELSE [S |-> S2,
                   result |-> [status |-> 200, id |-> response.id, usage |-> usage]]

\* acompletion raised: both except clauses run.
NonStreamProviderError(S, request_id, e) ==
    ChatExcept(ThenLogError(S, request_id, e, "non_stream_completion"),
               request_id, e)

\* create_chat_completion up to its first suspension: the await of the
\* provider (non-streaming), or the return of the unstarted generator.
create_chat_completion(model, messages, stream) ==
    LET request_id == next_id + 1
        request == ChatCompletionRequest(model, messages, stream)
        context == [request_id |-> request_id, model |-> model,
                    start_time |-> ServiceStartTime,
                    stream |-> stream, request_type |-> "chat"]
        llm_request == _prepare_litellm_request(request)
    IN  /\ next_id' = request_id
        /\ metrics_collector' = start_request(metrics_collector, context)
        /\ llm_interaction_logger' =
               start_interaction(llm_interaction_logger, request_id,
                                 "litellm", llm_request)
        /\ SetTask(request_id,
                   IF stream
                   THEN NewTask("stream", "generator_created", llm_request)
                   ELSE NewTask("chat", "awaiting_completion", llm_request))
        /\ UNCHANGED effects

NonStreamReturns(r, response) ==
    /\ r \in Started /\ task[r].kind = "chat" /\ task[r].pc = "awaiting_completion"
    /\ LET h == _handle_non_stream_completion(Shared, r, response)
       IN  /\ Commit(h.S)
           /\ SetTask(r, [task[r] EXCEPT
                  !.pc = IF h.result.status = 200 THEN "returned" ELSE "raised",
                  !.result = <<h.result>>])
    /\ UNCHANGED next_id

NonStreamRaises(r) ==
    /\ r \in Started /\ task[r].kind = "chat" /\ task[r].pc = "awaiting_completion"
    /\ Commit(NonStreamProviderError(Shared, r, "ProviderError"))
    /\ SetTask(r, [task[r] EXCEPT !.pc = "raised", !.result = <<[status |-> 500]>>])
    /\ UNCHANGED next_id

\* ------------------------------------------------------- stream fragments
\* A fragment (provider chunk): choices is empty (a usage-only or filter
\* chunk) or holds one choice.  Absent string fields are None; an absent
\* function_call or tool call function is <<>>.
FunctionDelta(name, arguments) == [name |-> name, arguments |-> arguments]

ToolCallDelta(id, type, function) == [id |-> id, type |-> type, function |-> function]

Delta(role, content, function_call, tool_calls) ==
    [role |-> role, content |-> content, function_call |-> function_call,
     tool_calls |-> tool_calls]

Fragment(delta, finish_reason) ==
    [id |-> "chunk", model |-> "m1", usage |-> <<>>,
     choices |-> <<[index |-> 0, delta |-> delta, finish_reason |-> finish_reason]>>]

NoChoiceFragment == [id |-> "chunk", model |-> "m1", usage |-> <<>>, choices |-> <<>>]

\* The chunk that reports the stream's usage: it has no choice.
UsageFragment(usage) == [NoChoiceFragment EXCEPT !.usage = <<usage>>]

ContentFragment(role, content) == Fragment(Delta(role, content, <<>>, <<>>), None)

FinishFragment(reason) == Fragment(Delta(None, None, <<>>, <<>>), reason)

ToolFragment(tool_calls) == Fragment(Delta(None, None, <<>>, tool_calls), None)

FunctionFragment(name, arguments) ==
    Fragment(Delta(None, None, <<FunctionDelta(name, arguments)>>, <<>>), None)


\* ------------------------------------------- _handle_stream_completion
\* The accumulator entry of call_id, or the default of dict.get.
AccGet(acc, call_id, tc_type) ==
    IF \E i \in 1..Len(acc) : acc[i].id = call_id
    THEN acc[CHOOSE i \in 1..Len(acc) : acc[i].id = call_id]
    ELSE [id |-> call_id,
          type |-> IF StrTruthy(tc_type) THEN tc_type ELSE "function",
          function |-> [name |-> None, arguments |-> ""]]

\* tool_call_accumulator[call_id] = entry (a dict keeps insertion order).
AccPut(acc, call_id, entry) ==
    IF \E i \in 1..Len(acc) : acc[i].id = call_id
    THEN [i \in 1..Len(acc) |-> IF acc[i].id = call_id THEN entry ELSE acc[i]]
    ELSE Append(acc, entry)

\* The body of the loop over choice.delta.tool_calls for one delta tc:
\* st = [deltas (tool_calls_delta), acc (tool_call_accumulator)].
ToolCallStep(st, tc) ==
    LET func_name == IF tc.function # <<>> THEN tc.function[1].name ELSE None
        func_args == IF tc.function # <<>> THEN tc.function[1].arguments ELSE None
    IN  IF func_name # None /\ func_args # None
        THEN LET emitted == ToolCallDelta(tc.id, tc.type,
                                <<FunctionDelta(func_name, func_args)>>)
                 existing == AccGet(st.acc, tc.id, tc.type)
                 named == IF func_name # ""
                          THEN [existing EXCEPT !.function.name = func_name]
                          ELSE existing
                 grown == IF func_args # ""
                          THEN [named EXCEPT !.function.arguments = @ \o func_args]
                          ELSE named
             IN  [deltas |-> Append(st.deltas, emitted),
                  acc    |-> IF StrTruthy(tc.id) THEN AccPut(st.acc, tc.id, grown)
                             ELSE st.acc]
        ELSE st

RECURSIVE ToolCallLoop(_, _)
ToolCallLoop(st, tcs) ==
    IF tcs = <<>> THEN st
    ELSE ToolCallLoop(ToolCallStep(st, Head(tcs)), Tail(tcs))

\* The accumulation of the legacy function_call delta; payload is the
\* delta's model_dump(exclude_none=True), a dropped key reading None.
FunctionCallStep(acc, payload) ==
    LET created == IF acc = <<>>
                   THEN [name |-> payload.name, arguments |-> ""]
                   ELSE acc[1]
        named == IF StrTruthy(payload.name)
                 THEN [created EXCEPT !.name = payload.name] ELSE created
        grown == IF StrTruthy(payload.arguments)
                 THEN [named EXCEPT !.arguments = @ \o payload.arguments]
                 ELSE named
    IN  <<grown>>

\* The assignment made for every choice, whatever its finish_reason.
FinishReasonStep_overwrites(finish_reason, choice) == choice.finish_reason

\* `if choice.finish_reason: finish_reason = choice.finish_reason`
FinishReasonStep(finish_reason, choice) ==
    IF StrTruthy(choice.finish_reason) THEN choice.finish_reason ELSE finish_reason

\* The body of `async for chunk in response_stream` for a chunk with a
\* choice: the task's locals after it, and the chunk it yields.
ProcessChoice(t, chunk) ==
    LET choice == chunk.choices[1]
        d == choice.delta
        has_fc == d.function_call # <<>> /\
                  (d.function_call[1].name # None \/ d.function_call[1].arguments # None)
        tl == IF d.tool_calls # <<>>
              THEN ToolCallLoop([deltas |-> <<>>, acc |-> t.tool_call_accumulator],
                                d.tool_calls)
              ELSE [deltas |-> <<>>, acc |-> t.tool_call_accumulator]
        delta == Delta(IF StrTruthy(d.role) THEN d.role ELSE None,
                       IF StrTruthy(d.content) THEN d.content ELSE None,
                       IF has_fc THEN d.function_call ELSE <<>>,
                       tl.deltas)
    IN  [locals |-> [t EXCEPT
            !.accumulated_content = IF StrTruthy(d.content) THEN @ \o d.content ELSE @,
            !.finish_reason = FinishReasonStep(@, choice),
            !.function_call_accumulator =
                IF has_fc THEN FunctionCallStep(@, d.function_call[1]) ELSE @,
            !.tool_call_accumulator = tl.acc],
         chunk |-> [id |-> chunk.id, model |-> chunk.model, index |-> choice.index,
                    delta |-> delta, finish_reason |-> choice.finish_reason]]

RECURSIVE JoinWith(_, _)
\* sep.join(texts)
JoinWith(sep, texts) ==
    IF texts = <<>> THEN ""
    ELSE IF Len(texts) = 1 THEN texts[1]
    ELSE texts[1] \o sep \o JoinWith(sep, Tail(texts))

ChunkEvent(i, chunk) == [type |-> "chunk", fragment |-> i, chunk |-> chunk]
DoneEvent == [type |-> "done"]
ErrorEvent(e) == [type |-> "error", error |-> [message |-> e, type |-> "stream_error"]]

\* The except clause recording the failed stream as a success.
StreamExcept_reports_success(S, t, request_id, e) ==
    [S |-> ThenComplete(ThenLogError(S, request_id, e, "stream_completion"),
                        request_id, TRUE, e, 0, 0, <<>>),
     locals |-> t,
     event  |-> ErrorEvent(e),
     pc     |-> "yielded_error"]

\* The except clause of _handle_stream_completion: [S, locals, event, pc].
StreamExcept(S, t, request_id, e) ==
    [S |-> ThenComplete(ThenLogError(S, request_id, e, "stream_completion"),
                        request_id, FALSE, e, 0, 0, <<>>),
     locals |-> t,
     event  |-> ErrorEvent(e),
     pc     |-> "yielded_error"]

\* The code after the loop handing the sentinel over before the interaction
\* and the request are completed.
StreamExhaustion_yields_first(S, t, request_id) ==
    [S |-> S, locals |-> t, event |-> DoneEvent, pc |-> "yielded_done"]

\* The code after the loop with the completion recorded before the prompt
\* estimate is computed: an error of the estimate then follows a success.
StreamExhaustion_completes_first(S, t, request_id) ==
    LET S1 == ThenComplete(S, request_id, TRUE, None, 0, 0, <<>>)
    IN  IF \E i \in 1..Len(t.llm_request.messages) :
              t.llm_request.messages[i].content.kind = "list"
        THEN StreamExcept(S1, t, request_id, "TypeError")
        ELSE [S |-> ThenCompleteInteraction(S1, request_id, [content |-> t.accumulated_content]),
              locals |-> t, event |-> DoneEvent, pc |-> "yielded_done"]

\* The code after the loop, run when the provider's stream is exhausted.
StreamExhaustion(S, t, request_id) ==
    LET completion_tokens ==
            IF t.accumulated_content # ""
            THEN Max(1, Len(t.accumulated_content) \div 3)
            ELSE t.completion_tokens
        contents == SelectSeq([i \in 1..Len(t.llm_request.messages) |->
                                  t.llm_request.messages[i].content], Truthy)
        \* str.join raises TypeError on an item that is no string
        join_raises == \E i \in 1..Len(contents) : contents[i].kind # "str"
        total_input_text == JoinWith(" ", [i \in 1..Len(contents) |-> contents[i].text])
        prompt_tokens == IF t.prompt_tokens = 0
                         THEN Max(1, Len(total_input_text) \div 3)
                         ELSE t.prompt_tokens
        t1 == [t EXCEPT !.completion_tokens = completion_tokens]
        t2 == [t1 EXCEPT !.prompt_tokens = prompt_tokens]
        response_summary ==
            [content |-> t.accumulated_content,
             finish_reason |-> t.finish_reason,
             chunk_count |-> t.chunk_count,
             estimated_tokens |-> Usage(prompt_tokens, completion_tokens,
                                        prompt_tokens + completion_tokens),
             tool_calls |-> t.tool_call_accumulator,
             function_call |-> t.function_call_accumulator]
    IN  IF t.prompt_tokens = 0 /\ join_raises
        THEN StreamExcept(S, t1, request_id, "TypeError")
        ELSE [S |-> ThenComplete(
                        ThenCompleteInteraction(S, request_id, response_summary),
                        request_id, TRUE, None, prompt_tokens, completion_tokens, <<>>),
              locals |-> t2,
              event  |-> DoneEvent,
              pc     |-> "yielded_done"]

\* The consumer's first __anext__: the generator runs up to the await of
\* acompletion.
StreamFirstNext(r) ==
    /\ r \in Started /\ task[r].pc = "generator_created"
    /\ SetTask(r, [task[r] EXCEPT !.pc = "awaiting_stream"])
    /\ UNCHANGED <<metrics_collector, llm_interaction_logger, next_id, effects>>

\* acompletion returned the stream: the loop awaits its first fragment.
ProviderOpensStream(r) ==
    /\ r \in Started /\ task[r].pc = "awaiting_stream"
    /\ SetTask(r, [task[r] EXCEPT !.pc = "awaiting_fragment"])
    /\ UNCHANGED <<metrics_collector, llm_interaction_logger, next_id, effects>>

\* An ending that hands the terminal event over ahead of the chunks.
Finish_prepends(r, h) ==
    /\ Commit(h.S)
    /\ SetTask(r, [h.locals EXCEPT !.pc = h.pc, !.out = <<h.event>> \o @])
    /\ UNCHANGED next_id

Finish(r, h) ==
    /\ Commit(h.S)
    /\ SetTask(r, [h.locals EXCEPT !.pc = h.pc, !.out = Append(@, h.event)])
    /\ UNCHANGED next_id

\* acompletion, or the stream's __anext__, raised.
ProviderRaises(r) ==
    /\ r \in Started /\ task[r].pc \in {"awaiting_stream", "awaiting_fragment"}
    /\ Finish(r, StreamExcept(Shared, [task[r] EXCEPT !.provider_raised = TRUE],
                               r, "ProviderError"))

\* A loop that keeps the chunk back instead of yielding it.
FragmentArrives_buffers(r, chunk) ==
    /\ r \in Started /\ task[r].pc = "awaiting_fragment"
    /\ SetTask(r, [task[r] EXCEPT !.chunk_count = @ + 1,
                                  !.received = Append(@, chunk)])
    /\ UNCHANGED <<metrics_collector, llm_interaction_logger, next_id, effects>>

\* A loop that hands its chunks over newest first.
FragmentArrives_prepends(r, chunk) ==
    /\ r \in Started /\ task[r].pc = "awaiting_fragment"
    /\ LET t == [task[r] EXCEPT !.chunk_count = @ + 1,
                                !.received = Append(@, chunk)]
       IN  IF chunk.choices # <<>>
           THEN LET p == ProcessChoice(t, chunk)
                IN  SetTask(r, [p.locals EXCEPT
                        !.pc = "yielded_chunk",
                        !.out = <<ChunkEvent(Len(t.received), p.chunk)>> \o @])
           ELSE SetTask(r, t)
    /\ UNCHANGED <<metrics_collector, llm_interaction_logger, next_id, effects>>

\* The provider delivered `chunk`: one turn of the loop, up to the yield
\* (or, for a chunk without choices, up to the next await).
FragmentArrives(r, chunk) ==
    /\ r \in Started /\ task[r].pc = "awaiting_fragment"
    /\ LET t == [task[r] EXCEPT !.chunk_count = @ + 1,
                                !.received = Append(@, chunk)]
       IN  IF chunk.choices # <<>>
           THEN LET p == ProcessChoice(t, chunk)
                IN  SetTask(r, [p.locals EXCEPT
                        !.pc = "yielded_chunk",
                        !.out = Append(@, ChunkEvent(Len(t.received), p.chunk))])
           ELSE SetTask(r, t)
    /\ UNCHANGED <<metrics_collector, llm_interaction_logger, next_id, effects>>

\* The consumer took the chunk and asks for the next one.
ConsumerResumes(r) ==
    /\ r \in Started /\ task[r].pc = "yielded_chunk"
    /\ SetTask(r, [task[r] EXCEPT !.pc = "awaiting_fragment"])
    /\ UNCHANGED <<metrics_collector, llm_interaction_logger, next_id, effects>>

StreamExhausted(r) ==
    /\ r \in Started /\ task[r].pc = "awaiting_fragment"
    /\ Finish(r, StreamExhaustion(Shared, [task[r] EXCEPT !.exhausted = TRUE], r))

\* The client went away: the response task is cancelled, or the generator
\* is closed.  CancelledError and GeneratorExit are no Exception, so the
\* except clause does not run and the generator ends where it stood.
ClientDisconnects(r) ==
    /\ r \in Started
    /\ task[r].pc \in {"generator_created", "awaiting_stream",
                       "awaiting_fragment", "yielded_chunk"}
    /\ SetTask(r, [task[r] EXCEPT !.pc = "closed"])
    /\ UNCHANGED <<metrics_collector, llm_interaction_logger, next_id, effects>>

\* ------------------------------------------------------------ embeddings
EmbeddingExcept(S, request_id, e) ==
    ThenComplete(ThenLogError(ThenLogError(S, request_id, e, "embedding_request"),
                              request_id, e, "create_embeddings"),
                 request_id, FALSE, e, 0, 0, <<>>)

\* _handle_embedding_request once aembedding returned `response`.
_handle_embedding_request(S, request_id, response) ==
    IF \E i \in 1..Len(response.data) : response.data[i].embedding.kind = "absent"
    THEN [S |-> EmbeddingExcept(S, request_id, "KeyError"),
          result |-> [status |-> 500]]
    ELSE LET usage == response.usage
             response_data == [data |-> response.data, model |-> response.model]
             S1 == ThenCompleteInteraction(S, request_id, response_data)
             p  == IF usage # <<>> THEN usage[1].prompt_tokens ELSE 0
             tt == IF usage # <<>> THEN usage[1].total_tokens ELSE 0
             S2 == ThenComplete(S1, request_id, TRUE, None, p, 0, <<tt>>)
         IN  IF \E i \in 1..Len(response.data) : response.data[i].index = None
             THEN [S |-> EmbeddingExcept(S2, request_id, "ValidationError"),
                   result |-> [status |-> 500]]
             ELSE [S |-> S2,
                   result |-> [status |-> 200, usage |-> Usage(p, 0, tt)]]

create_embeddings(model) ==
    LET request_id == next_id + 1
        context == [request_id |-> request_id, model |-> model,
                    start_time |-> ServiceStartTime,
                    stream |-> FALSE, request_type |-> "embedding"]
        llm_request == [model |-> model, input |-> "text"]
    IN  /\ next_id' = request_id
        /\ metrics_collector' = start_request(metrics_collector, context)
        /\ llm_interaction_logger' =
               start_interaction(llm_interaction_logger, request_id,
                                 "litellm", llm_request)
        /\ SetTask(request_id, NewTask("embedding", "awaiting_embedding", llm_request))
        /\ UNCHANGED effects

EmbeddingReturns(r, response) ==
    /\ r \in Started /\ task[r].pc = "awaiting_embedding"
    /\ LET h == _handle_embedding_request(Shared, r, response)
       IN  /\ Commit(h.S)
           /\ SetTask(r, [task[r] EXCEPT
                  !.pc = IF h.result.status = 200 THEN "returned" ELSE "raised",
                  !.result = <<h.result>>])
    /\ UNCHANGED next_id

EmbeddingRaises(r) ==
    /\ r \in Started /\ task[r].pc = "awaiting_embedding"
    /\ Commit(EmbeddingExcept(Shared, r, "ProviderError"))
    /\ SetTask(r, [task[r] EXCEPT !.pc = "raised", !.result = <<[status |-> 500]>>])
    /\ UNCHANGED next_id

\* ------------------------------------------------- the service's behaviour
\* The fragments a provider stream of the service run is made of.
ServiceFragments ==
    { NoChoiceFragment,
      UsageFragment(Usage(5, 3, 8)),
      ContentFragment("assistant", "hello"),
      FinishFragment("stop") }

Init ==
    /\ metrics_collector = MetricsCollectorInit(DefaultMaxHistory)
    /\ llm_interaction_logger = LoggerInit
    /\ next_id = 0
    /\ task = <<>>
    /\ effects = [id \in Ids |-> <<>>]

Next ==
    \/ \E messages \in Conversations, stream \in BOOLEAN :
          next_id < MaxReq /\ create_chat_completion("m1", messages, stream)
    \/ next_id < MaxReq /\ create_embeddings("m1")
    \/ \E r \in Started, response \in Completions : NonStreamReturns(r, response)
    \/ \E r \in Started : NonStreamRaises(r)
    \/ \E r \in Started, response \in Embeddings : EmbeddingReturns(r, response)
    \/ \E r \in Started : EmbeddingRaises(r)
    \/ \E r \in Started : StreamFirstNext(r)
    \/ \E r \in Started : ProviderOpensStream(r)
    \/ \E r \in Started : ProviderRaises(r)
    \/ \E r \in Started, chunk \in ServiceFragments :
          Len(task[r].received) < MaxFrags /\ FragmentArrives(r, chunk)
    \/ \E r \in Started : ConsumerResumes(r)
    \/ \E r \in Started : StreamExhausted(r)
    \/ \E r \in Started : ClientDisconnects(r)

Spec == Init /\ [][Next]_vars

\* ------------------------------------------- one stream, every delta shape
\* The fragments of the aggregator run: content, finish, legacy function
\* call and tool call deltas, with each of id, name and arguments set or not.
ToolDeltas ==
    ( { ToolCallDelta(id, "function", <<FunctionDelta(name, arguments)>>) :
        id \in {None, "c1"}, name \in {None, "f"}, arguments \in {None, "x", "y"} }
      \ { ToolCallDelta(None, "function", <<FunctionDelta(None, None)>>) } )
    \cup { ToolCallDelta("c1", None, <<FunctionDelta("", "y")>>),
           ToolCallDelta("c1", "function", <<>>) }

StreamFragments ==
    { NoChoiceFragment,
      ContentFragment("assistant", ""),
      ContentFragment(None, "ab"),
      FinishFragment("tool_calls"),
      FinishFragment("length") }
    \cup { ToolFragment(<<tc>>) : tc \in ToolDeltas }
    \cup { ToolFragment(<<ToolCallDelta("c1", "function", <<FunctionDelta("f", "x")>>),
                          ToolCallDelta("c2", "function", <<FunctionDelta("g", "y")>>)>>) }
    \cup { FunctionFragment("g", ""), FunctionFragment(None, "p"),
           FunctionFragment(None, None) }

NextStream ==
    \/ next_id = 0 /\ create_chat_completion("m1", <<UserText>>, TRUE)
    \/ \E r \in Started : StreamFirstNext(r)
    \/ \E r \in Started : ProviderOpensStream(r)
    \/ \E r \in Started : ProviderRaises(r)
    \/ \E r \in Started, chunk \in StreamFragments :
          Len(task[r].received) < MaxStreamFrags /\ FragmentArrives(r, chunk)
    \/ \E r \in Started : ConsumerResumes(r)
    \/ \E r \in Started : StreamExhausted(r)
    \/ \E r \in Started : ClientDisconnects(r)

SpecStream == Init /\ [][NextStream]_vars

\* --------------------------------------- the collector driven on its own
\* Start times of the requests of a directly driven collector: the last
\* second of one hour and the first of the next.
StartTimes == {SecondsPerHour - 1, SecondsPerHour}

\* Any interleaving of the collector's operations, each start with a fresh
\* request id, on a collector constructed with a small max_history.
\* task[1] is the last call made on the collector: the operation, its
\* request id, whether it returned an entry, and the collector as the call
\* found it.
CollectorCall(op, request_id) ==
    task' = <<[kind       |-> "collector_call",
               pc         |-> op,
               request_id |-> request_id,
               returned   |-> effects' # effects, \* an entry, not None
               before     |-> metrics_collector]>>

CallStartRequest(model, start_time, stream, request_type) ==
    /\ next_id < MaxStarts
    /\ next_id' = next_id + 1
    /\ metrics_collector' =
          start_request(metrics_collector,
                        [request_id |-> next_id + 1, model |-> model,
                         start_time |-> start_time,
                         stream |-> stream, request_type |-> request_type])
    /\ UNCHANGED <<llm_interaction_logger, effects>>
    /\ CollectorCall("start_request", next_id + 1)

CallCompleteRequest(request_id, success, prompt_tokens, completion_tokens, total_tokens) ==
    /\ Commit(ThenComplete(Shared, request_id, success,
                           IF success THEN None ELSE "error",
                           prompt_tokens, completion_tokens, total_tokens))
    /\ CollectorCall("complete_request", request_id)
    /\ UNCHANGED next_id

CallResetStats ==
    /\ metrics_collector' = reset_stats(metrics_collector)
    /\ UNCHANGED <<llm_interaction_logger, next_id, effects>>
    /\ CollectorCall("reset_stats", 0)

\* The arguments the service's call sites pass to complete_request: a chat
\* success with its token counts, an embedding success with the provider's
\* total, a failure with the defaults.
CompleteCalls ==
    { <<TRUE, 5, 3, <<>>>>, <<TRUE, 4, 0, <<6>>>>, <<FALSE, 0, 0, <<>>>> }

InitMetrics ==
    /\ \E max_history \in 1..MaxHistory :
          metrics_collector = MetricsCollectorInit(max_history)
    /\ llm_interaction_logger = LoggerInit
    /\ next_id = 0
    /\ task = <<>>
    /\ effects = [id \in Ids |-> <<>>]

NextMetrics ==
    \/ \E model \in Models, start_time \in StartTimes :
          CallStartRequest(model, start_time, start_time = SecondsPerHour,
                           IF start_time = SecondsPerHour THEN "chat" ELSE "embedding")
    \/ \E request_id \in 1..MaxStarts, call \in CompleteCalls :
          CallCompleteRequest(request_id, call[1], call[2], call[3], call[4])
    \/ CallResetStats

SpecMetrics == InitMetrics /\ [][NextMetrics]_vars

\* ------------------------------------------- the normalizer on its own
\* Tool fields of an inbound request: absent, an empty list, one definition.
ToolLists == { <<>>, << <<>> >>, << <<[type |-> "function", function |-> [name |-> "search"]]>> >> }
FunctionLists == { <<>>, << <<>> >>, << <<[name |-> "search"]>> >> }
\* A call policy: a keyword ("auto", "none", "required") or the name of
\* the function to call.
Policy(keyword, name) == [keyword |-> keyword, name |-> name]
\* Call policies of an inbound request: absent, a keyword, a named function.
ToolChoices == { <<>>, <<Policy("auto", None)>>, <<Policy(None, "search")>> }
FunctionCalls == { <<>>, <<Policy("none", None)>>, <<Policy(None, "search")>> }

\* The conversations of an inbound request: those of the service run, and
\* messages with null content with and without a call of either kind.
PrepareConversations ==
    Conversations \cup
    { <<UserText, AssistantEmpty>>,
      <<UserText, AssistantFunctionCall, UserText>>,
      <<AssistantEmptyFunctionCall, UserBlocks>>,
      <<UserText, AssistantToolCallText, ToolResultNoId>> }

Requests ==
    { WithTools(ChatCompletionRequest("m1", messages, stream),
                tools, tool_choice, functions, function_call) :
        messages \in PrepareConversations, stream \in BOOLEAN,
        tools \in ToolLists, tool_choice \in ToolChoices,
        functions \in FunctionLists, function_call \in FunctionCalls }

\* _prepare_litellm_request is called with any of the requests.
InitPrepare ==
    /\ metrics_collector = MetricsCollectorInit(DefaultMaxHistory)
    /\ llm_interaction_logger = LoggerInit
    /\ next_id = 0
    /\ effects = [id \in Ids |-> <<>>]
    /\ \E request \in Requests :
          task = <<[kind |-> "prepare", pc |-> "called", request |-> request,
                    llm_request |-> <<>>]>>

PrepareReturns ==
    /\ task[1].pc = "called"
    /\ task' = <<[task[1] EXCEPT
                    !.pc = "returned",
                    !.llm_request = <<_prepare_litellm_request(task[1].request)>>]>>
    /\ UNCHANGED <<metrics_collector, llm_interaction_logger, next_id, effects>>

SpecPrepare == InitPrepare /\ [][PrepareReturns]_vars

\* ------------------------------------- normalizing a provider's message
\* A value of a provider's message that need not be a string: its kind and
\* what str() makes of it.
ArgNone == [kind |-> "none", repr |-> ""]
ArgStr(s) == [kind |-> "str", repr |-> s]
ArgDict == [kind |-> "dict", repr |-> "{'city': 'Shanghai'}"]

\* str(v) of Python.
PyStr(v) == v.repr

\* A tool call of a provider's message, as model_dump(exclude_none=True) or
\* the dict without its None values gives it: id and type are None when
\* left out, function is <<>> when left out.
ProviderToolCall(id, name, arguments) ==
    [id |-> id, type |-> None, function |-> <<[name |-> name, arguments |-> arguments]>>]

\* _normalize_tool_call_entry: <<>> for None, else <<the normalized call>>.
_normalize_tool_call_entry(tool_call) ==
    LET call_id == tool_call.id
        func_name == IF tool_call.function = <<>> THEN None
                     ELSE tool_call.function[1].name
        func_args == IF tool_call.function = <<>> THEN ArgNone
                     ELSE tool_call.function[1].arguments
    IN  IF StrTruthy(call_id) /\ func_name # None
        THEN <<[id   |-> call_id,
                type |-> IF tool_call.type = None THEN "function" ELSE tool_call.type,
                function |-> [name |-> func_name,
                              arguments |-> IF func_args.kind = "none" THEN ""
                                            ELSE PyStr(func_args)]]>>
        ELSE <<>>

RECURSIVE NormalizedCalls(_)
\* The loop of _extract_tool_calls: the normalized calls, in order.
NormalizedCalls(tool_calls) ==
    IF tool_calls = <<>> THEN <<>>
    ELSE _normalize_tool_call_entry(Head(tool_calls)) \o NormalizedCalls(Tail(tool_calls))

\* _extract_tool_calls that collects the calls last first.
_extract_tool_calls_reverses(message) ==
    LET normalized == NormalizedCalls(message.tool_calls)
    IN  [models |-> IF normalized = <<>> THEN <<>> ELSE <<Reverse(normalized)>>,
         logs   |-> IF normalized = <<>> THEN <<>> ELSE <<Reverse(normalized)>>]

\* _extract_tool_calls: the ToolCall models and the log dicts, each <<>>
\* for None or <<list>>.  ToolCall accepts every normalized call, since
\* all its fields are strings.
_extract_tool_calls(message) ==
    LET normalized == NormalizedCalls(message.tool_calls)
    IN  [models |-> IF normalized = <<>> THEN <<>> ELSE <<normalized>>,
         logs   |-> IF normalized = <<>> THEN <<>> ELSE <<normalized>>]

\* _extract_function_call_payload: <<>> for None, else <<payload>>.
_extract_function_call_payload(message) ==
    LET fc == message.function_call
    IN  IF ~DictTruthy(fc) THEN <<>>
        ELSE IF ~StrTruthy(fc[1].name) THEN <<>>
        ELSE <<[name |-> fc[1].name,
                arguments |-> IF fc[1].arguments.kind = "none" THEN ""
                              ELSE PyStr(fc[1].arguments)]>>

\* The tool calls a provider's message may hold.
ProviderToolCalls ==
    { ProviderToolCall(id, name, arguments) :
        id \in {None, "call_1", "call_2"}, name \in {None, "f"},
        arguments \in {ArgNone, ArgStr("{}"), ArgDict} }
    \cup { ProviderToolCall("", "f", ArgStr("{}")),
           ProviderToolCall("call_1", "", ArgDict),
           [id |-> "call_2", type |-> "function", function |-> <<>>] }

\* Its legacy function call: None, the empty dict, or a dict.
ProviderFunctionCalls ==
    { <<>>, << <<>> >> }
    \cup { <<[name |-> name, arguments |-> arguments]>> :
             name \in {None, "", "get_weather"}, arguments \in {ArgNone, ArgDict} }

RECURSIVE SeqsUpTo(_, _)
\* The sequences over S of length at most n.
SeqsUpTo(S, n) ==
    IF n = 0 THEN {<<>>}
    ELSE LET shorter == SeqsUpTo(S, n - 1)
         IN  shorter \cup {Append(s, x) : s \in shorter, x \in S}

\* The normalizing functions are called with a message of the provider.
InitExtract ==
    /\ metrics_collector = MetricsCollectorInit(DefaultMaxHistory)
    /\ llm_interaction_logger = LoggerInit
    /\ next_id = 0
    /\ effects = [id \in Ids |-> <<>>]
    /\ \E tool_calls \in SeqsUpTo(ProviderToolCalls, MaxToolCalls),
          function_call \in ProviderFunctionCalls :
          task = <<[kind |-> "extract", pc |-> "called",
                    message |-> [tool_calls |-> tool_calls,
                                 function_call |-> function_call],
                    tool_calls |-> <<>>, function_call |-> <<>>]>>

ExtractReturns ==
    /\ task[1].pc = "called"
    /\ task' = <<[task[1] EXCEPT
                    !.pc = "returned",
                    !.tool_calls = <<_extract_tool_calls(task[1].message)>>,
                    !.function_call = _extract_function_call_payload(task[1].message)]>>
    /\ UNCHANGED <<metrics_collector, llm_interaction_logger, next_id, effects>>

SpecExtract == InitExtract /\ [][ExtractReturns]_vars

\* ------------------------------------------ the logger driven on its own
\* Any interleaving of the logger's operations on a few request ids, started
\* or not.  task[1] is the last call made: the operation, its request id,
\* whether the id was in the live table, and the records the call emitted.
LoggerCall(op, request_id) ==
    /\ Len(llm_interaction_logger.sink) < MaxSink
    /\ task' = <<[kind       |-> "logger_call",
                  pc         |-> op,
                  request_id |-> request_id,
                  started    |-> request_id \in DOMAIN llm_interaction_logger.interactions,
                  emitted    |-> SubSeq(llm_interaction_logger'.sink,
                                        Len(llm_interaction_logger.sink) + 1,
                                        Len(llm_interaction_logger'.sink))]>>
    /\ UNCHANGED <<metrics_collector, next_id, effects>>

CallStartInteraction(request_id) ==
    /\ llm_interaction_logger' =
          start_interaction(llm_interaction_logger, request_id, "litellm",
                            [model |-> "m1"])
    /\ LoggerCall("start_interaction", request_id)

CallCompleteInteraction(request_id, success) ==
    /\ llm_interaction_logger' =
          complete_interaction(llm_interaction_logger, request_id,
                               [id |-> "cmpl"], success,
                               IF success THEN None ELSE "boom")
    /\ LoggerCall("complete_interaction", request_id)

CallLogErrorInteraction(request_id) ==
    /\ llm_interaction_logger' =
          log_error_interaction(llm_interaction_logger, request_id, "boom", "caller")
    /\ LoggerCall("log_error_interaction", request_id)

NextLogger ==
    \/ \E request_id \in 1..MaxLogIds : CallStartInteraction(request_id)
    \/ \E request_id \in 1..MaxLogIds, success \in BOOLEAN :
          CallCompleteInteraction(request_id, success)
    \/ \E request_id \in 1..MaxLogIds : CallLogErrorInteraction(request_id)

SpecLogger == Init /\ [][NextLogger]_vars

\* ------------------------------------- the collector called from threads
\* Threads call the collector's methods concurrently.  A method body runs
\* statement by statement, so without the lock the bodies would interleave.
\* task[th] is thread th: its call, its position in the method, the entry
\* it popped, what the call returned, and, for a read, the ids whose
\* start_request had returned and the active ids when it read.
Thread(op, request_id, call) ==
    [kind |-> "thread", op |-> op, pc |-> "acquire",
     request_id  |-> request_id,
     success     |-> call[1], prompt_tokens |-> call[2],
     completion_tokens |-> call[3], total_tokens |-> call[4],
     was_started |-> \E th \in DOMAIN task :
                        /\ task[th].op = "start_request"
                        /\ task[th].request_id = request_id
                        /\ task[th].pc = "done",
     metrics     |-> <<>>,
     result      |-> <<>>,
     seen        |-> <<>>]

Readers == {"get_current_stats", "get_recent_requests"}

\* A thread makes a call: the call of start_request with a fresh id, the
\* others with an id handed out before.
ThreadCalls(op, request_id, call) ==
    /\ Len(task) < MaxThreads
    /\ IF op = "start_request"
       THEN request_id = next_id + 1 /\ next_id' = request_id
       ELSE request_id \in 1..next_id /\ UNCHANGED next_id
    /\ task' = Append(task, Thread(op, request_id, call))
    /\ UNCHANGED <<metrics_collector, llm_interaction_logger, effects>>

ThreadAt(th, pc) == th \in DOMAIN task /\ task[th].kind = "thread" /\ task[th].pc = pc

ThreadStep(th, t) ==
    /\ task' = [task EXCEPT ![th] = t]
    /\ UNCHANGED <<llm_interaction_logger, next_id>>

\* A method entered without waiting for the lock.
Acquire_ignores_lock(th) ==
    /\ ThreadAt(th, "acquire")
    /\ metrics_collector' = [metrics_collector EXCEPT !.lock = th]
    /\ ThreadStep(th, [task[th] EXCEPT !.pc =
          CASE task[th].op = "start_request"    -> "start_body"
            [] task[th].op = "complete_request" -> "complete_check"
            [] task[th].op = "reset_stats"      -> "reset_clear"
            [] OTHER                            -> "read_body"])
    /\ UNCHANGED effects

\* `with self._lock:`: the thread waits until the lock is free.
Acquire(th) ==
    /\ ThreadAt(th, "acquire")
    /\ metrics_collector.lock = 0
    /\ metrics_collector' = [metrics_collector EXCEPT !.lock = th]
    /\ ThreadStep(th, [task[th] EXCEPT !.pc =
          CASE task[th].op = "start_request"    -> "start_body"
            [] task[th].op = "complete_request" -> "complete_check"
            [] task[th].op = "reset_stats"      -> "reset_clear"
            [] OTHER                            -> "read_body"])
    /\ UNCHANGED effects

\* The collector once the thread left the `with` block.
Released(mc) == [mc EXCEPT !.lock = 0]

\* start_request's body.
StartBody(th) ==
    /\ ThreadAt(th, "start_body")
    /\ metrics_collector' =
          Released(start_request(metrics_collector,
              [request_id |-> task[th].request_id, model |-> "m1",
               start_time |-> ServiceStartTime, stream |-> FALSE,
               request_type |-> "chat"]))
    /\ ThreadStep(th, [task[th] EXCEPT !.pc = "done", !.result = <<"entry">>])
    /\ UNCHANGED effects

\* complete_request: `if request_id not in self._active_requests: return None`.
CompleteCheck(th) ==
    /\ ThreadAt(th, "complete_check")
    /\ IF task[th].request_id \notin DOMAIN metrics_collector.active_requests
       THEN /\ metrics_collector' = Released(metrics_collector)
            /\ ThreadStep(th, [task[th] EXCEPT !.pc = "done", !.result = <<"None">>])
       ELSE /\ UNCHANGED metrics_collector
            /\ ThreadStep(th, [task[th] EXCEPT !.pc = "complete_pop"])
    /\ UNCHANGED effects

\* complete_request: `metrics = self._active_requests.pop(request_id)`,
\* which raises KeyError when the id is gone.
CompletePop(th) ==
    /\ ThreadAt(th, "complete_pop")
    /\ LET active == metrics_collector.active_requests
           request_id == task[th].request_id
       IN  IF request_id \notin DOMAIN active
           THEN /\ metrics_collector' = Released(metrics_collector)
                /\ ThreadStep(th, [task[th] EXCEPT !.pc = "raised",
                                                   !.result = <<"KeyError">>])
           ELSE /\ metrics_collector' = [metrics_collector EXCEPT
                      !.active_requests =
                          [id \in DOMAIN active \ {request_id} |-> active[id]]]
                /\ ThreadStep(th, [task[th] EXCEPT !.pc = "complete_append",
                                                   !.metrics = <<active[request_id]>>])
    /\ UNCHANGED effects

\* complete_request: the entry's fields are set and it joins the history.
CompleteAppend(th) ==
    /\ ThreadAt(th, "complete_append")
    /\ LET t == task[th]
           metrics == [t.metrics[1] EXCEPT
               !.completed         = TRUE,
               !.success           = t.success,
               !.error_message     = IF t.success THEN None ELSE "error",
               !.prompt_tokens     = t.prompt_tokens,
               !.completion_tokens = t.completion_tokens,
               !.total_tokens      = IF t.total_tokens # <<>> THEN t.total_tokens[1]
                                     ELSE t.prompt_tokens + t.completion_tokens]
       IN  /\ metrics_collector' = [metrics_collector EXCEPT
                  !.completed_requests =
                      DequeAppend(@, metrics, metrics_collector.max_history)]
           /\ ThreadStep(th, [t EXCEPT !.pc = "complete_stats", !.metrics = <<metrics>>])
    /\ UNCHANGED effects

\* complete_request: `self._update_aggregated_stats(metrics)`, and the
\* return of the entry.
CompleteStats(th) ==
    /\ ThreadAt(th, "complete_stats")
    /\ metrics_collector' =
          Released(_update_aggregated_stats(metrics_collector, task[th].metrics[1]))
    /\ effects' = [effects EXCEPT ![task[th].request_id] = Append(@, task[th].success)]
    /\ ThreadStep(th, [task[th] EXCEPT !.pc = "done", !.result = <<"entry">>])

\* The body of a read method.
ReadBody(th) ==
    /\ ThreadAt(th, "read_body")
    /\ metrics_collector' = Released(metrics_collector)
    /\ ThreadStep(th, [task[th] EXCEPT
          !.pc = "done",
          !.result = IF task[th].op = "get_current_stats"
                     THEN <<get_current_stats(metrics_collector, ServiceStartTime)>>
                     ELSE <<get_recent_requests(metrics_collector, 100)>>,
          !.seen = <<[started |-> {task[o].request_id : o \in
                                     {o \in DOMAIN task :
                                        /\ task[o].op = "start_request"
                                        /\ task[o].pc = "done"}},
                      active  |-> DOMAIN metrics_collector.active_requests]>>])
    /\ UNCHANGED effects

NextThreads ==
    \/ ThreadCalls("start_request", next_id + 1, <<TRUE, 0, 0, <<>>>>)
    \/ \E request_id \in 1..next_id, call \in {<<TRUE, 5, 3, <<>>>>, <<FALSE, 0, 0, <<>>>>} :
          ThreadCalls("complete_request", request_id, call)
    \/ \E op \in Readers : ThreadCalls(op, 1, <<TRUE, 0, 0, <<>>>>)
    \/ \E th \in DOMAIN task : Acquire(th)
    \/ \E th \in DOMAIN task : StartBody(th)
    \/ \E th \in DOMAIN task : CompleteCheck(th)
    \/ \E th \in DOMAIN task : CompletePop(th)
    \/ \E th \in DOMAIN task : CompleteAppend(th)
    \/ \E th \in DOMAIN task : CompleteStats(th)
    \/ \E th \in DOMAIN task : ReadBody(th)

SpecThreads == Init /\ [][NextThreads]_vars

\* ---------------------------------------- reset_stats called from threads
\* reset_stats: the active set and the history are cleared.
ResetClear(th) ==
    /\ ThreadAt(th, "reset_clear")
    /\ metrics_collector' = [metrics_collector EXCEPT
           !.active_requests = <<>>, !.completed_requests = <<>>]
    /\ ThreadStep(th, [task[th] EXCEPT !.pc = "reset_counters"])
    /\ UNCHANGED effects

\* reset_stats: the counters and the aggregates are cleared; the thread
\* leaves the `with` block.  result is the collector as the call left it.
ResetCounters(th) ==
    /\ ThreadAt(th, "reset_counters")
    /\ LET mc == Released([metrics_collector EXCEPT
                     !.total_requests = 0, !.total_tokens = 0,
                     !.success_count = 0,
                     !.model_usage = [m \in {} |-> 0],
                     !.hourly_stats = [h \in {} |-> HourStats(0, 0, 0)]])
       IN  /\ metrics_collector' = mc
           /\ ThreadStep(th, [task[th] EXCEPT !.pc = "done", !.result = <<mc>>])
    /\ UNCHANGED effects

NextReset ==
    \/ ThreadCalls("start_request", next_id + 1, <<TRUE, 0, 0, <<>>>>)
    \/ \E request_id \in 1..next_id, call \in {<<TRUE, 5, 3, <<>>>>, <<FALSE, 0, 0, <<>>>>} :
          ThreadCalls("complete_request", request_id, call)
    \/ ThreadCalls("reset_stats", 1, <<TRUE, 0, 0, <<>>>>)
    \/ \E th \in DOMAIN task : Acquire(th)
    \/ \E th \in DOMAIN task : StartBody(th)
    \/ \E th \in DOMAIN task : CompleteCheck(th)
    \/ \E th \in DOMAIN task : CompletePop(th)
    \/ \E th \in DOMAIN task : CompleteAppend(th)
    \/ \E th \in DOMAIN task : CompleteStats(th)
    \/ \E th \in DOMAIN task : ResetClear(th)
    \/ \E th \in DOMAIN task : ResetCounters(th)

SpecReset == Init /\ [][NextReset]_vars

\* ------------------------------------------------------- the HTTP routes
\* A JSON value of an embedding body's `input`: a string, a non-empty list
\* of integers, a list of such values, or absent.  `decoded` of a list of
\* integers is what try_decode_tokens returns for it.
TextItem(text) == [kind |-> "str", text |-> text, decoded |-> None, items |-> <<>>]

TokenItem(decoded) == [kind |-> "ints", text |-> None, decoded |-> decoded, items |-> <<>>]

ListInput(items) == [kind |-> "list", text |-> None, decoded |-> None, items |-> items]

AbsentInput == [kind |-> "absent", text |-> None, decoded |-> None, items |-> <<>>]

\* The first candidate encoding that decodes the tokens to non-blank text
\* gives the result; None when none does or tiktoken is not installed.
try_decode_tokens(input_data) ==
    IF input_data.kind = "ints" THEN input_data.decoded ELSE None

\* [raised, data]: raised when a ValueError leaves the function.
preprocess_embedding_data(raw_data) ==
    LET input_data == raw_data.input
        items == input_data.items
        IsTokens(item) == item.kind = "ints"
        Decode(item) == IF IsTokens(item) THEN TextItem(try_decode_tokens(item))
                        ELSE item
    IN  IF input_data.kind = "ints"
        THEN IF StrTruthy(try_decode_tokens(input_data))
             THEN [raised |-> FALSE,
                   data |-> [raw_data EXCEPT !.input = Decode(input_data)]]
             ELSE [raised |-> TRUE, data |-> raw_data]
        ELSE IF input_data.kind = "list" /\ \E i \in 1..Len(items) : IsTokens(items[i])
        THEN IF \E i \in 1..Len(items) :
                    IsTokens(items[i]) /\ ~StrTruthy(try_decode_tokens(items[i]))
             THEN [raised |-> TRUE, data |-> raw_data]
             ELSE [raised |-> FALSE,
                   data |-> [raw_data EXCEPT !.input =
                       ListInput([i \in 1..Len(items) |-> Decode(items[i])])]]
        ELSE [raised |-> FALSE, data |-> raw_data]

\* EmbeddingRequest(**processed_data) validates: input is a str or a list
\* of str, model is a str.
EmbeddingRequestValidates(data) ==
    /\ \/ data.input.kind = "str"
       \/ /\ data.input.kind = "list"
          /\ \A i \in 1..Len(data.input.items) : data.input.items[i].kind = "str"
    /\ data.model # None

\* Python truthiness of a validated input.
InputTruthy(input) ==
    IF input.kind = "str" THEN input.text # "" ELSE input.items # <<>>

\* The HTTPException of create_error_response as http_exception_handler
\* answers it (the message text is left out).
create_error_response(error_type, status_code) ==
    [status_code |-> status_code,
     error |-> [type |-> error_type, code |-> status_code]]

\* validation_exception_handler for a body that is not a tokenized
\* embedding input.
validation_exception_handler ==
    [status_code |-> 422, error |-> [type |-> "validation_error", code |-> None]]

\* The route answers without calling the service: the answer is kept at
\* key 0 of the task table, with the route and the body it answers.
Responds(route, body, response) ==
    SetTask(0, [kind |-> "http", pc |-> "responded", route |-> route,
                body |-> body, response |-> response])

\* POST /v1/embeddings up to the call of the service: <<>> when the
\* service is called, the error answer otherwise.
EmbeddingsRouteError(raw_data) ==
    LET pre == preprocess_embedding_data(raw_data)
    IN  IF pre.raised
        THEN <<create_error_response("embedding_error", 500)>>
        ELSE IF ~EmbeddingRequestValidates(pre.data)
        THEN <<create_error_response("invalid_request", 400)>>
        ELSE IF ~InputTruthy(pre.data.input)
        THEN <<create_error_response("invalid_request", 400)>>
        ELSE IF ~StrTruthy(pre.data.model)
        THEN <<create_error_response("invalid_request", 400)>>
        ELSE <<>>

\* POST /v1/embeddings.  The service's own _preprocess_embedding_input
\* finds nothing left to decode in the input the route hands it.
main_create_embeddings(raw_data) ==
    LET error == EmbeddingsRouteError(raw_data)
    IN  IF error # <<>>
        THEN /\ Responds("/v1/embeddings", raw_data, error[1])
             /\ UNCHANGED <<metrics_collector, llm_interaction_logger, next_id,
                            effects>>
        ELSE next_id < MaxReq /\ create_embeddings(raw_data.model)

\* The route that calls the service whatever the body holds.
main_create_chat_completion_skips_validation(body) ==
    /\ body.model # None
    /\ next_id < MaxReq
    /\ create_chat_completion(body.model, body.messages, body.stream)

\* POST /v1/chat/completions.  A body without `model` fails FastAPI's
\* validation of ChatCompletionRequest before the route function runs.
main_create_chat_completion(body) ==
    IF body.model = None
    THEN /\ Responds("/v1/chat/completions", body, validation_exception_handler)
         /\ UNCHANGED <<metrics_collector, llm_interaction_logger, next_id, effects>>
    ELSE IF body.messages = <<>> \/ body.model = ""
    THEN /\ Responds("/v1/chat/completions", body,
                     create_error_response("invalid_request", 400))
         /\ UNCHANGED <<metrics_collector, llm_interaction_logger, next_id, effects>>
    ELSE /\ next_id < MaxReq
         /\ create_chat_completion(body.model, body.messages, body.stream)

EmbeddingInputs ==
    { TextItem("text"), TextItem(""), AbsentInput,
      TokenItem("text"), TokenItem(None),
      ListInput(<<>>), ListInput(<<TextItem("a"), TextItem("b")>>),
      ListInput(<<TextItem("a"), TokenItem("text")>>),
      ListInput(<<TextItem("a"), TokenItem(None)>>) }

EmbeddingBodies == [input : EmbeddingInputs, model : {"m1", "", None}]

ChatBodies ==
    [model : {"m1", "", None}, messages : Conversations \cup {<<>>},
     stream : BOOLEAN]

\* The requests the service is serving or has served.
Served == Started \ {0}

NextRoutes ==
    \/ \E raw_data \in EmbeddingBodies : main_create_embeddings(raw_data)
    \/ \E body \in ChatBodies : main_create_chat_completion(body)
    \/ \E r \in Served, response \in Completions : NonStreamReturns(r, response)
    \/ \E r \in Served : NonStreamRaises(r)
    \/ \E r \in Served, response \in Embeddings : EmbeddingReturns(r, response)
    \/ \E r \in Served : EmbeddingRaises(r)
    \/ \E r \in Served : StreamFirstNext(r)
    \/ \E r \in Served : ProviderOpensStream(r)
    \/ \E r \in Served : ProviderRaises(r)
    \/ \E r \in Served, chunk \in ServiceFragments :
          Len(task[r].received) < MaxFrags /\ FragmentArrives(r, chunk)
    \/ \E r \in Served : ConsumerResumes(r)
    \/ \E r \in Served : StreamExhausted(r)
    \/ \E r \in Served : ClientDisconnects(r)

SpecRoutes == Init /\ [][NextRoutes]_vars

\* --------------------------------------------------- the token estimator
\* A text is the sequence of its code points.  The code points around the
\* two ends of the range the estimator counts as Chinese.
CodePoints == {HanFirst - 1, HanFirst, HanLast, HanLast + 1}

Texts == SeqsUpTo(CodePoints, MaxTextLen)

\* The estimator that leaves the last code point of the range out.
calculate_tokens_estimate_open_range(text) ==
    IF text = <<>> THEN 0
    ELSE LET chinese_chars ==
                 Cardinality({i \in 1..Len(text) :
                                 HanFirst <= text[i] /\ text[i] < HanLast})
             english_chars == Len(text) - chinese_chars
         IN  Max(1, (8 * chinese_chars + 3 * english_chars) \div 12)

\* calculate_tokens_estimate.  chinese_chars / 1.5 + english_chars / 4.0 is
\* (8 * chinese_chars + 3 * english_chars) / 12, and int() of a value that
\* is not negative drops its fraction.  The float sum has the integer part
\* of the exact one: it is exact when chinese_chars is a multiple of 3, and
\* the exact sum is at least 1/12 away from every integer otherwise.
calculate_tokens_estimate(text) ==
    IF text = <<>> THEN 0
    ELSE LET chinese_chars ==
                 Cardinality({i \in 1..Len(text) :
                                 HanFirst <= text[i] /\ text[i] <= HanLast})
             total_chars == Len(text)
             english_chars == total_chars - chinese_chars
             twelfths == 8 * chinese_chars + 3 * english_chars
         IN  Max(1, twelfths \div 12)

\* The estimator is called with a text.
InitEstimate ==
    /\ metrics_collector = MetricsCollectorInit(DefaultMaxHistory)
    /\ llm_interaction_logger = LoggerInit
    /\ next_id = 0
    /\ task = <<>>
    /\ effects = [id \in Ids |-> <<>>]

EstimateReturns(text) ==
    /\ task' = <<[kind |-> "estimate", pc |-> "returned", text |-> text,
                  tokens |-> calculate_tokens_estimate(text)]>>
    /\ UNCHANGED <<metrics_collector, llm_interaction_logger, next_id, effects>>

NextEstimate == \E text \in Texts : EstimateReturns(text)

SpecEstimate == InitEstimate /\ [][NextEstimate]_vars

\* ------------------------------------- the logger given embedding payloads
Base64Alphabet == <<"Q", "U", "J", "D", "R", "E", "Z", "H">>

\* A base64 string of n characters and an array of n floats.
Base64Text(n) == [i \in 1..n |-> Base64Alphabet[((i - 1) % Len(Base64Alphabet)) + 1]]

Floats(n) == [i \in 1..n |-> IF i % 2 = 1 THEN "0.5" ELSE "-1.25"]

EmbeddingValues ==
    { Base64Embedding(Base64Text(n)) : n \in 0..MaxEmbeddingChars }
    \cup { FloatEmbedding(Floats(n)) : n \in 0..MaxEmbeddingFloats }

\* response_data as _handle_embedding_request builds it.
EmbeddingPayload(embeddings) ==
    [data |-> [i \in 1..Len(embeddings) |->
                  [embedding |-> embeddings[i], index |-> i - 1]],
     model |-> "m1"]

EmbeddingPayloads ==
    { EmbeddingPayload(<<e>>) : e \in EmbeddingValues }
    \cup { EmbeddingPayload(<<Base64Embedding(Base64Text(MaxEmbeddingChars)),
                              FloatEmbedding(Floats(MaxEmbeddingFloats))>>),
           EmbeddingPayload(<<FloatEmbedding(Floats(2)),
                              Base64Embedding(Base64Text(3))>>),
           EmbeddingPayload(<<>>) }

\* complete_interaction is called with an embedding payload.
CallCompleteEmbedding(request_id, response_data) ==
    /\ Len(llm_interaction_logger.sink) < MaxSink
    /\ llm_interaction_logger' =
          complete_interaction(llm_interaction_logger, request_id,
                               response_data, TRUE, None)
    /\ task' = <<[kind       |-> "logger_call",
                  pc         |-> "complete_embedding",
                  request_id |-> request_id,
                  started    |-> request_id \in DOMAIN llm_interaction_logger.interactions,
                  emitted    |-> SubSeq(llm_interaction_logger'.sink,
                                        Len(llm_interaction_logger.sink) + 1,
                                        Len(llm_interaction_logger'.sink)),
                  response_data |-> response_data]>>
    /\ UNCHANGED <<metrics_collector, next_id, effects>>

NextTruncate ==
    \/ \E request_id \in 1..MaxLogIds : CallStartInteraction(request_id)
    \/ \E request_id \in 1..MaxLogIds, response_data \in EmbeddingPayloads :
          CallCompleteEmbedding(request_id, response_data)

SpecTruncate == Init /\ [][NextTruncate]_vars

\* ------------------------------------------------------ the hourly trends
\* get_hourly_trends at time.time() = current_time: one entry per hour,
\* each inserted at the front, so the hour of i = hours - 1 comes first and
\* the current hour last.  The strftime label '%H:00' is the hour of the
\* day; latency is left out with the durations.
get_hourly_trends(mc, hours, current_time) ==
    LET hour_key(i) == HourKey(current_time - i * SecondsPerHour)
        hour_stats(i) == IF hour_key(i) \in DOMAIN mc.hourly_stats
                         THEN mc.hourly_stats[hour_key(i)]
                         ELSE HourStats(0, 0, 0)
        \* the loop index whose entry ends up at position j
        At(j) == hours - j
        n == Max(hours, 0)
    IN  [hours    |-> [j \in 1..n |-> hour_key(At(j)) % HoursPerDay],
         requests |-> [j \in 1..n |-> hour_stats(At(j)).requests],
         tokens   |-> [j \in 1..n |-> hour_stats(At(j)).tokens],
         errors   |-> [j \in 1..n |-> hour_stats(At(j)).errors]]

\* GET /metrics/trends?hours=N.
get_metrics_trends(mc, hours, current_time) ==
    get_hourly_trends(mc,
                      IF hours < 1 \/ hours > MaxTrendHours
                      THEN DefaultTrendHours ELSE hours,
                      current_time)

\* The values of `hours` a caller asks with, and the times it asks at.
TrendHours ==
    {-1, 0, 1, 2, DefaultTrendHours, MaxTrendHours, MaxTrendHours + 1,
     2 * MaxTrendHours}

TrendTimes == {SecondsPerHour, 2 * SecondsPerHour + 1}

CallGetMetricsTrends(hours, current_time) ==
    /\ task' = <<[kind |-> "trends_call", pc |-> "returned", hours |-> hours,
                  current_time |-> current_time,
                  returned |-> get_metrics_trends(metrics_collector, hours,
                                                  current_time)]>>
    /\ UNCHANGED <<metrics_collector, llm_interaction_logger, next_id, effects>>

NextTrends ==
    \/ \E start_time \in StartTimes :
          /\ next_id < MaxTrendStarts
          /\ CallStartRequest("m1", start_time, FALSE, "chat")
    \/ \E request_id \in 1..MaxTrendStarts, success \in BOOLEAN :
          CallCompleteRequest(request_id, success, 5, 3, <<>>)
    \/ \E hours \in TrendHours, current_time \in TrendTimes :
          CallGetMetricsTrends(hours, current_time)

SpecTrends == Init /\ [][NextTrends]_vars

\* ------------------------------------------------ flattening the content
\* In this part a text is the sequence of its characters.  A content
\* block: text is <<>> when the block has no text (or None), else <<the
\* text>>; image_url is absent, a dict with its url (empty when missing),
\* or a plain string.
ImageUrl(kind, url) == [kind |-> kind, url |-> url]

ContentBlock(type, text, image_url) ==
    [type |-> type, text |-> text, image_url |-> image_url]

Whitespace == {" ", "\n"}

RECURSIVE LeftStrip(_)
LeftStrip(text) ==
    IF text # <<>> /\ Head(text) \in Whitespace THEN LeftStrip(Tail(text)) ELSE text

RECURSIVE RightStrip(_)
RightStrip(text) ==
    IF text # <<>> /\ text[Len(text)] \in Whitespace
    THEN RightStrip(SubSeq(text, 1, Len(text) - 1)) ELSE text

\* str.strip()
Strip(text) == RightStrip(LeftStrip(text))

RECURSIVE JoinLines(_)
\* "\n".join(fragments)
JoinLines(fragments) ==
    IF fragments = <<>> THEN <<>>
    ELSE IF Len(fragments) = 1 THEN fragments[1]
    ELSE fragments[1] \o <<"\n">> \o JoinLines(Tail(fragments))

\* json.dumps(block): the block's keys and values between braces; never
\* empty and never with whitespace at its ends.
JsonDumps(block) ==
    <<"{", block.type>> \o (IF block.text # <<>> THEN block.text[1] ELSE <<>>)
                        \o block.image_url.url \o <<"}">>

\* What the loop appends to fragments for one block: nothing or one text.
BlockFragments(block) ==
    IF block.text # <<>>
    THEN <<block.text[1]>>
    ELSE IF block.type = "image_url" /\ block.image_url.kind = "dict"
    THEN IF block.image_url.url # <<>>
         THEN <<<<"[image:">> \o block.image_url.url \o <<"]">>>>
         ELSE <<>>
    ELSE <<JsonDumps(block)>>

RECURSIVE AllFragments(_)
AllFragments(blocks) ==
    IF blocks = <<>> THEN <<>>
    ELSE BlockFragments(Head(blocks)) \o AllFragments(Tail(blocks))

\* The function that joins every fragment, the empty ones too.
_normalize_message_content_keeps_empty(content) ==
    CASE content.kind = "null" -> <<>>
      [] content.kind = "str"  -> content.text
      [] content.kind = "list" -> Strip(JoinLines(AllFragments(content.blocks)))

_normalize_message_content(content) ==
    CASE content.kind = "null" -> <<>>
      [] content.kind = "str"  -> content.text
      [] content.kind = "list" ->
            Strip(JoinLines(SelectSeq(AllFragments(content.blocks),
                                      LAMBDA frag : frag # <<>>)))

FlattenTexts == { <<>>, <<"a">>, <<" ", "b">>, <<"c", "\n">> }

FlattenBlocks ==
    { ContentBlock("text", <<text>>, ImageUrl("absent", <<>>)) : text \in FlattenTexts }
    \cup { ContentBlock("text", <<>>, ImageUrl("absent", <<>>)),
           ContentBlock("input_text", <<<<"d">>>>, ImageUrl("absent", <<>>)),
           ContentBlock("image_url", <<>>, ImageUrl("dict", <<"u">>)),
           ContentBlock("image_url", <<>>, ImageUrl("dict", <<>>)),
           ContentBlock("image_url", <<>>, ImageUrl("str", <<"u">>)),
           ContentBlock("input_audio", <<>>, ImageUrl("absent", <<>>)) }

FlattenContents ==
    {NullContent}
    \cup { StrContent(text) : text \in FlattenTexts }
    \cup { ListContent(blocks) : blocks \in SeqsUpTo(FlattenBlocks, MaxBlocks) }

\* The content of a user message is flattened, and the message is prepared
\* for the provider.
InitFlatten ==
    /\ metrics_collector = MetricsCollectorInit(DefaultMaxHistory)
    /\ llm_interaction_logger = LoggerInit
    /\ next_id = 0
    /\ effects = [id \in Ids |-> <<>>]
    /\ \E content \in FlattenContents :
          task = <<[kind |-> "flatten", pc |-> "called", content |-> content,
                    returned |-> <<>>, forwarded |-> <<>>]>>

FlattenReturns ==
    /\ task[1].pc = "called"
    /\ task' = <<[task[1] EXCEPT
          !.pc = "returned",
          !.returned = <<_normalize_message_content(task[1].content)>>,
          !.forwarded = <<PrepareMessage(ChatMessage("user", task[1].content,
                                                     <<>>, None, <<>>)).content>>]>>
    /\ UNCHANGED <<metrics_collector, llm_interaction_logger, next_id, effects>>

SpecFlatten == InitFlatten /\ [][FlattenReturns]_vars

\* ================================================================ claims
StreamTasks == {r \in Started : task[r].kind = "stream"}

\* The task ended on one of the code's own paths: the call returned or
\* raised, or the stream yielded its last event.
Terminated(r) == task[r].pc \in {"returned", "raised", "yielded_done", "yielded_error"}

InHistory(r, success) ==
    \E i \in 1..Len(metrics_collector.completed_requests) :
        /\ metrics_collector.completed_requests[i].request_id = r
        /\ metrics_collector.completed_requests[i].success = success

RECURSIVE ChoiceIdx(_)
\* The positions, ascending, of the fragments that have a choice.
ChoiceIdx(received) ==
    IF received = <<>> THEN <<>>
    ELSE LET front == ChoiceIdx(SubSeq(received, 1, Len(received) - 1))
         IN  IF received[Len(received)].choices # <<>>
             THEN Append(front, Len(received)) ELSE front

\* The chunk events of a stream's output, in order.
ChunkEvents(out) == SelectSeq(out, LAMBDA e : e.type = "chunk")

\* C1: for every started request, complete_request never takes effect
\* twice, and once the request ended (success, provider failure before any
\* output, failure mid-stream, failure while post-processing) it has taken
\* effect exactly once.
C1_CompletedExactlyOnce ==
    \A r \in Started :
        /\ Len(effects[r]) <= 1
        /\ Terminated(r) => Len(effects[r]) = 1

\* A call that failed after its success was recorded: the second
\* complete_request found nothing to complete.
C1_Witness ==
    \E r \in Started : task[r].pc = "raised" /\ effects[r] = <<TRUE>>

\* C2: a stream the client disconnected from has had exactly one effective
\* complete_request, with success=false, and is no longer active.
C2_DisconnectCompletes ==
    \A r \in StreamTasks :
        task[r].pc = "closed" =>
            /\ effects[r] = <<FALSE>>
            /\ r \notin DOMAIN metrics_collector.active_requests

\* C3: no request id is both in the active set and in the completed
\* history, whatever the interleaving of start, complete and reset.
C3_ActiveCompletedDisjoint ==
    \A i \in 1..Len(metrics_collector.completed_requests) :
        metrics_collector.completed_requests[i].request_id
            \notin DOMAIN metrics_collector.active_requests

C3_Witness ==
    /\ DOMAIN metrics_collector.active_requests # {}
    /\ Len(metrics_collector.completed_requests) >= 2

\* C4: a stream whose provider sequence was exhausted without raising ends
\* Completed: the sentinel is the last event, complete_request(success=true)
\* took effect and the sink holds the summary, whatever the message contents.
C4_ExhaustionCompletes ==
    \A r \in StreamTasks :
        task[r].exhausted =>
            /\ task[r].pc = "yielded_done"
            /\ task[r].out[Len(task[r].out)] = DoneEvent
            /\ effects[r] = <<TRUE>>
            /\ \E i \in 1..Len(llm_interaction_logger.sink) :
                  /\ llm_interaction_logger.sink[i].request_id = r
                  /\ llm_interaction_logger.sink[i].status = "success"

\* C5 as stated: after the provider failed with k fragments delivered, the
\* caller has exactly k chunks, one per fragment, then one stream_error
\* event, and the request is in the history with success=false.
C5_Original ==
    \A r \in StreamTasks :
        task[r].provider_raised =>
            LET out == task[r].out
                k == Len(task[r].received)
            IN  /\ Len(out) = k + 1
                /\ \A i \in 1..k : out[i].type = "chunk" /\ out[i].fragment = i
                /\ out[k + 1].type = "error"
                /\ out[k + 1].error.type = "stream_error"
                /\ InHistory(r, FALSE)

\* C5, amended: after the provider failed with k fragments delivered, the
\* caller has exactly one chunk for each of those fragments that has a
\* choice, in order, then exactly one stream_error event and nothing after
\* it (no sentinel), and the request is in the history with success=false.
C5_ErrorPath ==
    \A r \in StreamTasks :
        task[r].provider_raised =>
            LET out == task[r].out
                idx == ChoiceIdx(task[r].received)
                n == Len(idx)
            IN  /\ Len(out) = n + 1
                /\ \A i \in 1..n : out[i].type = "chunk" /\ out[i].fragment = idx[i]
                /\ out[n + 1].type = "error"
                /\ out[n + 1].error.type = "stream_error"
                /\ task[r].pc = "yielded_error"
                /\ InHistory(r, FALSE) /\ ~InHistory(r, TRUE)

\* The provider failed after a fragment without choices and one with.
C5_Witness ==
    \E r \in StreamTasks :
        /\ task[r].provider_raised
        /\ Len(task[r].received) = 2
        /\ Len(task[r].out) = 2

\* C6: a stream has at most one terminal event (sentinel or error event),
\* it is the last event, the effective completion agrees with it (success
\* with the sentinel, failure with the error event, never both), and a
\* stream whose provider sequence ended or failed has exactly one.
C6_StateMachine ==
    \A r \in StreamTasks :
        LET t == task[r]
            out == t.out
            terminals == {i \in 1..Len(out) : out[i].type \in {"done", "error"}}
        IN  /\ Cardinality(terminals) <= 1
            /\ terminals \subseteq {Len(out)}
            /\ Len(effects[r]) <= 1
            /\ (t.exhausted \/ t.provider_raised) => Cardinality(terminals) = 1
            /\ terminals = {} => effects[r] = <<>>
            /\ terminals # {} =>
                  /\ out[Len(out)].type = "done" =>
                        effects[r] = <<TRUE>> /\ t.pc = "yielded_done"
                  /\ out[Len(out)].type = "error" =>
                        effects[r] = <<FALSE>> /\ t.pc = "yielded_error"
            /\ t.pc \in {"yielded_done", "yielded_error"} => terminals # {}
            /\ t.pc = "generator_created" => out = <<>> /\ t.received = <<>>

\* An exhausted stream that ended Errored after emitting a chunk.
C6_Witness ==
    \E r \in StreamTasks :
        /\ task[r].exhausted
        /\ task[r].pc = "yielded_error"
        /\ Len(task[r].out) >= 2

RECURSIVE Pieces(_)
\* The argument pieces of a stream of one-delta fragments, concatenated.
Pieces(received) ==
    IF received = <<>> THEN ""
    ELSE Head(received).choices[1].delta.tool_calls[1].function[1].arguments
         \o Pieces(Tail(received))

\* The fragments are the tool-call deltas of one call: each carries one
\* delta with an argument piece; the first carries the call id and the
\* function name, a later one carries them or leaves them out.
OneCallDeltas(received) ==
    /\ received # <<>>
    /\ \A i \in 1..Len(received) :
          /\ received[i].choices # <<>>
          /\ Len(received[i].choices[1].delta.tool_calls) = 1
          /\ LET tc == received[i].choices[1].delta.tool_calls[1]
             IN  /\ tc.function # <<>>
                 /\ tc.function[1].arguments # None
                 /\ IF i = 1
                    THEN tc.id = "c1" /\ tc.function[1].name = "f"
                    ELSE tc.id \in {None, "c1"} /\ tc.function[1].name \in {None, "", "f"}

\* C7: the arguments accumulated for a call whose argument string arrived
\* split over the deltas of N >= 1 fragments equal the unsplit string.
C7_ChunkingIdempotent ==
    \A r \in StreamTasks :
        OneCallDeltas(task[r].received) =>
            \E i \in 1..Len(task[r].tool_call_accumulator) :
                /\ task[r].tool_call_accumulator[i].id = "c1"
                /\ task[r].tool_call_accumulator[i].function.arguments
                      = Pieces(task[r].received)

\* C8 as stated: every fragment received has been re-emitted as one chunk
\* by the time the next one is requested or the sentinel is emitted, so
\* the chunks are as many as the fragments.
C8_Original ==
    \A r \in StreamTasks :
        task[r].pc \in {"awaiting_fragment", "yielded_done"} =>
            Len(ChunkEvents(task[r].out)) = Len(task[r].received)

\* C8, amended: every fragment that has a choice is re-emitted as exactly
\* one chunk, in the turn that received it and so before the next fragment
\* is requested; a fragment without choices is counted and not re-emitted.
\* On a successful stream the chunks before the sentinel are as many as
\* the fragments that have a choice.
C8_PassThrough ==
    \A r \in StreamTasks :
        LET chunks == ChunkEvents(task[r].out)
            idx == ChoiceIdx(task[r].received)
        IN  /\ [i \in 1..Len(chunks) |-> chunks[i].fragment] = idx
            /\ task[r].chunk_count = Len(task[r].received)
            /\ task[r].pc = "yielded_done" =>
                  /\ Len(task[r].out) = Len(idx) + 1
                  /\ task[r].out[Len(idx) + 1] = DoneEvent

\* A successful stream of a fragment with a choice and one without.
C8_Witness ==
    \E r \in StreamTasks :
        /\ task[r].pc = "yielded_done"
        /\ Len(task[r].received) = 2
        /\ Len(task[r].out) = 2

\* C9: the chunks of a stream are in the fragments' arrival order, and no
\* fragment gave rise to two of them.
C9_ArrivalOrder ==
    \A r \in StreamTasks :
        LET chunks == ChunkEvents(task[r].out)
        IN  \A i, j \in 1..Len(chunks) :
                i < j => chunks[i].fragment < chunks[j].fragment

C9_Witness ==
    \E r \in StreamTasks : Len(ChunkEvents(task[r].out)) >= 2

\* What a delta field carries: the empty string carries nothing.
Carried(x) == IF x = "" THEN None ELSE x

\* C10: the chunk emitted for a fragment carries the role, the content,
\* the legacy function-call delta and every tool-call delta of the
\* fragment's delta, with the id, name and arguments each one sets.
C10_ChunkCarriesDelta ==
    \A r \in StreamTasks :
        \A e \in 1..Len(task[r].out) :
            task[r].out[e].type = "chunk" =>
                LET d == task[r].received[task[r].out[e].fragment].choices[1].delta
                    c == task[r].out[e].chunk.delta
                IN  /\ c.role = Carried(d.role)
                    /\ c.content = Carried(d.content)
                    /\ (d.function_call # <<>> /\
                          (d.function_call[1].name # None \/
                           d.function_call[1].arguments # None))
                         => c.function_call = d.function_call
                    /\ Len(c.tool_calls) = Len(d.tool_calls)
                    /\ \A j \in 1..Len(d.tool_calls) :
                          /\ c.tool_calls[j].id = d.tool_calls[j].id
                          /\ c.tool_calls[j].function = d.tool_calls[j].function

\* C11: a stream that succeeded (its effective completion is a success)
\* has received exactly one [DONE] event, that event is the last one the
\* caller received, and every event before it is a chunk of the stream.
C11_DoneTerminates ==
    \A r \in StreamTasks :
        effects[r] = <<TRUE>> =>
            LET out == task[r].out
            IN  /\ out # <<>>
                /\ out[Len(out)] = DoneEvent
                /\ \A i \in 1..(Len(out) - 1) : out[i].type = "chunk"
                /\ Len(ChunkEvents(out)) = Len(ChoiceIdx(task[r].received))

\* A successful stream whose sentinel follows a chunk.
C11_Witness ==
    \E r \in StreamTasks :
        /\ effects[r] = <<TRUE>>
        /\ Len(task[r].out) >= 2
        /\ task[r].out[Len(task[r].out)] = DoneEvent

\* The records the sink holds for request r.
SinkRecords(r) == SelectSeq(llm_interaction_logger.sink, LAMBDA rec : rec.request_id = r)

\* C12: once a request whose interaction was started has ended (success,
\* non-streaming provider failure, stream failure, embedding failure), the
\* sink holds exactly one record for it and its interaction is completed.
C12_OneRecordPerInteraction ==
    \A r \in Started :
        Terminated(r) =>
            /\ Len(SinkRecords(r)) = 1
            /\ r \notin DOMAIN llm_interaction_logger.interactions

\* C13: once a request has ended on any path, client disconnect included,
\* the live table holds no entry for its request id.
C13_LiveTableEvicted ==
    \A r \in Started :
        (Terminated(r) \/ task[r].pc = "closed") =>
            r \notin DOMAIN llm_interaction_logger.interactions

\* The last call of a directly driven logger, if it was of `op`.
LastLoggerCall(op) == task # <<>> /\ task[1].kind = "logger_call" /\ task[1].pc = op

\* The minimal record of an error without a started interaction.
ErrorOnlyRecord(request_id, error, context) ==
    [request_id |-> request_id, status |-> "error", error |-> error, context |-> context]

\* C14 as stated: complete_interaction for a request id that was never
\* started emits one minimal error-only record, and after any call of it
\* the live table holds no entry for the id.
C14_Original ==
    LastLoggerCall("complete_interaction") =>
        /\ task[1].request_id \notin DOMAIN llm_interaction_logger.interactions
        /\ ~task[1].started =>
              /\ Len(task[1].emitted) = 1
              /\ task[1].emitted[1].status = "error"
              /\ "downstream_request" \notin DOMAIN task[1].emitted[1]

\* C14: complete_interaction for a request id that is not in the live
\* table emits nothing; log_error_interaction for such an id emits the
\* minimal error-only record; for an id in the table each emits the one
\* full record of the interaction; and after a call of either the live
\* table holds no entry for the id.
C14_UnknownId ==
    /\ LastLoggerCall("complete_interaction") =>
          /\ task[1].request_id \notin DOMAIN llm_interaction_logger.interactions
          /\ ~task[1].started => task[1].emitted = <<>>
          /\ task[1].started =>
                /\ Len(task[1].emitted) = 1
                /\ task[1].emitted[1].request_id = task[1].request_id
                /\ "downstream_request" \in DOMAIN task[1].emitted[1]
    /\ LastLoggerCall("log_error_interaction") =>
          /\ task[1].request_id \notin DOMAIN llm_interaction_logger.interactions
          /\ ~task[1].started =>
                task[1].emitted = <<ErrorOnlyRecord(task[1].request_id, "boom", "caller")>>
          /\ task[1].started =>
                /\ Len(task[1].emitted) = 1
                /\ task[1].emitted[1].request_id = task[1].request_id
                /\ task[1].emitted[1].status = "error"
                /\ "downstream_request" \in DOMAIN task[1].emitted[1]

\* complete_interaction was called for an id that was never started, while
\* another interaction was live and a record had been written.
C14_Witness ==
    /\ LastLoggerCall("complete_interaction")
    /\ ~task[1].started
    /\ llm_interaction_logger.interactions # <<>>
    /\ llm_interaction_logger.sink # <<>>

\* The last call of a directly driven collector, if it was of `op`.
LastCollectorCall(op) == task # <<>> /\ task[1].kind = "collector_call" /\ task[1].pc = op

\* C15: complete_request for a request id that is not in the active set
\* returns no entry and leaves the active set, the completed history and
\* every aggregate counter (totals, success count, per-model counts, hourly
\* buckets) as they were.
C15_InactiveNoOp ==
    (LastCollectorCall("complete_request") /\
     task[1].request_id \notin DOMAIN task[1].before.active_requests) =>
        /\ ~task[1].returned
        /\ metrics_collector.active_requests = task[1].before.active_requests
        /\ metrics_collector.completed_requests = task[1].before.completed_requests
        /\ metrics_collector.total_requests = task[1].before.total_requests
        /\ metrics_collector.total_tokens = task[1].before.total_tokens
        /\ metrics_collector.success_count = task[1].before.success_count
        /\ metrics_collector.model_usage = task[1].before.model_usage
        /\ metrics_collector.hourly_stats = task[1].before.hourly_stats

\* A second complete_request for a request already in the history, made
\* while another request is active.
C15_Witness ==
    /\ LastCollectorCall("complete_request")
    /\ task[1].request_id \notin DOMAIN task[1].before.active_requests
    /\ effects[task[1].request_id] # <<>>
    /\ InHistory(task[1].request_id, TRUE)
    /\ metrics_collector.active_requests # <<>>

\* C17: the completed history never holds more than max_history entries; a
\* completion appends its entry and, when the history was full, evicts
\* exactly the oldest one; so the history holds the last
\* min(completions, max_history) completed requests in completion order.
C17_BoundedHistory ==
    LET history == metrics_collector.completed_requests
        max_history == metrics_collector.max_history
    IN  /\ Len(history) <= max_history
        /\ Len(history) = IF metrics_collector.total_requests < max_history
                          THEN metrics_collector.total_requests ELSE max_history
        /\ (LastCollectorCall("complete_request") /\ task[1].returned) =>
              LET old == task[1].before.completed_requests
                  kept == IF Len(old) = max_history THEN Tail(old) ELSE old
              IN  /\ Len(history) = Len(kept) + 1
                  /\ SubSeq(history, 1, Len(kept)) = kept
                  /\ history[Len(history)].request_id = task[1].request_id

\* A completion that found a full history of two entries.
C17_Witness ==
    /\ LastCollectorCall("complete_request") /\ task[1].returned
    /\ Len(task[1].before.completed_requests) = 2
    /\ metrics_collector.max_history = 2

\* The threads that called complete_request for request id.
Completers(id) ==
    {th \in DOMAIN task : task[th].kind = "thread" /\
                          task[th].op = "complete_request" /\ task[th].request_id = id}

\* The ids for which a complete_request took effect.
CompletedIds == {id \in 1..next_id : effects[id] # <<>>}

\* C16: however the calls of complete_request for one request interleave,
\* none raises, at most one returns the entry, the history holds at most
\* one entry for the request, and once a call made after the request was
\* started has returned, exactly one call has taken effect: the request is
\* out of the active set and once in the history.  Whenever no thread is
\* inside the collector, every aggregate counter has been incremented
\* exactly once per completed request.
C16_OneEffectiveCompletion ==
    /\ \A id \in 1..next_id :
          LET effective == {th \in Completers(id) : task[th].result = <<"entry">>}
              entries == {i \in 1..Len(metrics_collector.completed_requests) :
                             metrics_collector.completed_requests[i].request_id = id}
          IN  /\ \A th \in Completers(id) : task[th].pc # "raised"
              /\ Cardinality(effective) <= 1
              /\ Cardinality(effective) = Len(effects[id])
              /\ Cardinality(entries) <= 1
              /\ (\E th \in Completers(id) : task[th].was_started /\ task[th].pc = "done") =>
                    /\ Cardinality(effective) = 1
                    /\ Cardinality(entries) = 1
                    /\ id \notin DOMAIN metrics_collector.active_requests
    /\ metrics_collector.lock = 0 =>
          LET n == Cardinality(CompletedIds)
              hour == HourKey(ServiceStartTime)
          IN  /\ metrics_collector.total_requests = n
              /\ Len(metrics_collector.completed_requests) = n
              /\ metrics_collector.success_count =
                     Cardinality({id \in CompletedIds : effects[id] = <<TRUE>>})
              /\ n > 0 => /\ metrics_collector.model_usage = [m \in {"m1"} |-> n]
                          /\ DOMAIN metrics_collector.hourly_stats = {hour}
                          /\ metrics_collector.hourly_stats[hour].requests = n

\* Two calls for the same started request have returned, one with the
\* entry and one with None.
C16_Witness ==
    \E id \in 1..next_id : \E a, b \in Completers(id) :
        /\ a # b
        /\ task[a].was_started /\ task[b].was_started
        /\ task[a].result = <<"entry">> /\ task[b].result = <<"None">>

\* The threads whose read has returned.
DoneReaders ==
    {th \in DOMAIN task : task[th].kind = "thread" /\ task[th].op \in Readers /\
                          task[th].pc = "done"}

\* C18: whenever a read runs, every request that was started and had left
\* the active set is in the history get_recent_requests returns and in the
\* counters get_current_stats returns (total, per model, per hour).
C18_AtomicMove ==
    \A th \in DoneReaders :
        LET seen == task[th].seen[1]
            left == seen.started \ seen.active
            result == task[th].result[1]
        IN  IF task[th].op = "get_recent_requests"
            THEN /\ \A id \in left : \E i \in 1..Len(result) : result[i].request_id = id
                 /\ \A i \in 1..Len(result) : result[i].request_id \in left
            ELSE /\ result.total_requests = Cardinality(left)
                 /\ result.requests_per_hour = Cardinality(left)
                 /\ left # {} => result.models_used = [m \in {"m1"} |-> Cardinality(left)]

\* A read that ran after a request was completed.
C18_Witness ==
    \E th \in DoneReaders :
        /\ task[th].seen[1].started \ task[th].seen[1].active # {}
        /\ task[th].op = "get_current_stats"

\* The normalizer returned: its request and the downstream request.
Prepared == task # <<>> /\ task[1].kind = "prepare" /\ task[1].pc = "returned"

\* C19: the downstream request never has both tools and functions (tools
\* wins when the inbound request has both), never both tool_choice and
\* function_call, and never a legacy field (functions, function_call)
\* together with a modern one (tools, tool_choice).
C19_ToolsExclusive ==
    Prepared =>
        LET request == task[1].request
            llm_request == task[1].llm_request[1]
            legacy == llm_request.functions # <<>> \/ llm_request.function_call # <<>>
            modern == llm_request.tools # <<>> \/ llm_request.tool_choice # <<>>
        IN  /\ ~(llm_request.tools # <<>> /\ llm_request.functions # <<>>)
            /\ ~(llm_request.tool_choice # <<>> /\ llm_request.function_call # <<>>)
            /\ (request.tools # <<>> /\ request.functions # <<>>) =>
                  llm_request.tools = request.tools /\ llm_request.functions = <<>>
            /\ ~(legacy /\ modern)

\* C20: when the inbound request has neither tools nor tool_choice, its
\* functions are forwarded as tools and its function_call as tool_choice,
\* and not under their legacy names.
C20_LegacyMapped ==
    Prepared =>
        LET request == task[1].request
            llm_request == task[1].llm_request[1]
        IN  (request.tools = <<>> /\ request.tool_choice = <<>>) =>
                /\ request.functions # <<>> =>
                      llm_request.tools # <<>> /\ llm_request.functions = <<>>
                /\ request.function_call # <<>> =>
                      llm_request.tool_choice # <<>> /\ llm_request.function_call = <<>>

\* Whether an inbound message carries a tool call or a legacy function call.
CarriesCall(msg) == msg.tool_calls # <<>> \/ DictTruthy(msg.function_call)

\* C21: a message of the downstream request has null content only if the
\* inbound message carries a tool call or a legacy function call; inbound
\* null content without a call is forwarded as the empty string, inbound
\* null content with a call as null, and any other content as it came.
C21_NullContentOnlyWithCall ==
    Prepared =>
        LET inbound == task[1].request.messages
            forwarded == task[1].llm_request[1].messages
        IN  \A i \in 1..Len(forwarded) :
                /\ forwarded[i].content = NullContent => CarriesCall(inbound[i])
                /\ (inbound[i].content = NullContent /\ ~CarriesCall(inbound[i])) =>
                      forwarded[i].content = StrContent("")
                /\ (inbound[i].content = NullContent /\ CarriesCall(inbound[i])) =>
                      forwarded[i].content = NullContent
                /\ inbound[i].content # NullContent =>
                      forwarded[i].content = inbound[i].content

\* The normalizer returned for a conversation with a null content beside
\* an empty function call, forwarded as the empty string.
C21_Witness ==
    /\ Prepared
    /\ task[1].request.messages[1] = AssistantEmptyFunctionCall
    /\ task[1].llm_request[1].messages[1].content = StrContent("")

\* C22: the downstream request has the inbound messages, as many and in
\* the same order, each with its role, its non-empty tool_call_id, its
\* tool calls (the same calls in the same order) and its non-empty
\* function_call; the model and the tool definitions are forwarded
\* unchanged.
C22_ConversationPreserved ==
    Prepared =>
        LET request == task[1].request
            llm_request == task[1].llm_request[1]
        IN  /\ Len(llm_request.messages) = Len(request.messages)
            /\ \A i \in 1..Len(request.messages) :
                  LET msg == request.messages[i]
                      m == llm_request.messages[i]
                  IN  /\ m.role = msg.role
                      /\ StrTruthy(msg.tool_call_id) => m.tool_call_id = msg.tool_call_id
                      /\ m.tool_calls = msg.tool_calls
                      /\ DictTruthy(msg.function_call) => m.function_call = msg.function_call
            /\ llm_request.model = request.model
            /\ llm_request.tools = request.tools

\* The normalizer returned for the conversation of a tool call and its
\* result, with tool definitions.
C22_Witness ==
    /\ Prepared
    /\ task[1].request.messages = <<UserText, AssistantToolCall, ToolResult>>
    /\ task[1].request.tools # <<>> /\ task[1].request.tools # << <<>> >>

\* The normalizing functions returned.
Extracted == task # <<>> /\ task[1].kind = "extract" /\ task[1].pc = "returned"

\* The tool calls of a message that have an id and a function name.
Complete(tool_calls) ==
    SelectSeq(tool_calls, LAMBDA tc : /\ StrTruthy(tc.id)
                                      /\ tc.function # <<>>
                                      /\ tc.function[1].name # None)

\* What the arguments of a call become: "" when missing, str() of them
\* otherwise.
ArgumentString(arguments) == IF arguments.kind = "none" THEN "" ELSE arguments.repr

\* C23: the model list and the log list hold, in the message's order,
\* exactly its tool calls that have an id and a function name, each with
\* its arguments as a string ("" when missing, str() of a non-string); the
\* legacy function call is omitted when it has no name, and has its
\* arguments as a string otherwise.
C23_NormalizedCalls ==
    Extracted =>
        LET message == task[1].message
            kept == Complete(message.tool_calls)
            models == IF task[1].tool_calls[1].models = <<>> THEN <<>>
                      ELSE task[1].tool_calls[1].models[1]
            logs == IF task[1].tool_calls[1].logs = <<>> THEN <<>>
                    ELSE task[1].tool_calls[1].logs[1]
            fc == message.function_call
        IN  /\ Len(logs) = Len(kept) /\ models = logs
            /\ \A i \in 1..Len(kept) :
                  /\ logs[i].id = kept[i].id
                  /\ logs[i].function.name = kept[i].function[1].name
                  /\ logs[i].function.arguments =
                         ArgumentString(kept[i].function[1].arguments)
            /\ (~DictTruthy(fc) \/ ~StrTruthy(fc[1].name)) <=> task[1].function_call = <<>>
            /\ task[1].function_call # <<>> =>
                  /\ task[1].function_call[1].name = fc[1].name
                  /\ task[1].function_call[1].arguments = ArgumentString(fc[1].arguments)

\* Two tool calls were kept, the second with arguments that were a dict,
\* beside a function call without arguments.
C23_Witness ==
    /\ Extracted
    /\ task[1].tool_calls[1].logs # <<>>
    /\ Len(task[1].tool_calls[1].logs[1]) = 2
    /\ task[1].tool_calls[1].logs[1][1].id = "call_1"
    /\ task[1].tool_calls[1].logs[1][2].function.arguments = ArgDict.repr
    /\ task[1].function_call # <<>>
    /\ task[1].function_call[1].arguments = ""

\* The answer a route gave without calling the service, if any.
Answered(route) == 0 \in Started /\ task[0].route = route

\* The body's input is a list of integers that no encoding decodes, or a
\* list that holds one.
Undecodable(raw_data) ==
    \/ raw_data.input.kind = "ints" /\ raw_data.input.decoded = None
    \/ /\ raw_data.input.kind = "list"
       /\ \E i \in 1..Len(raw_data.input.items) :
             /\ raw_data.input.items[i].kind = "ints"
             /\ raw_data.input.items[i].decoded = None

\* C24: an embedding request whose input is, or holds, a list of integers
\* that no encoding decodes is answered with HTTP 400 or 422 and error type
\* invalid_request_error.
C24_UndecodableIsValidationError ==
    (Answered("/v1/embeddings") /\ Undecodable(task[0].body)) =>
        /\ task[0].response.status_code \in {400, 422}
        /\ task[0].response.error.type = "invalid_request_error"

\* C24, the part that holds: answering such a request calls no provider and
\* creates no metrics entry, active or completed.
C24_NoMetricsEntry ==
    [][\A raw_data \in EmbeddingBodies :
          (Undecodable(raw_data) /\ main_create_embeddings(raw_data)) =>
              UNCHANGED <<metrics_collector, llm_interaction_logger, next_id>>]_vars

EmptyChatBody(body) == body.messages = <<>> \/ body.model = ""

\* C25: a chat request with an empty message list or an empty model name is
\* answered with HTTP 400 or 422 without a call of the service: no request
\* id is drawn, no provider call is started, and the MetricsCollector and
\* the logger's live table stay as they were.
C25_EmptyChatRejected ==
    [][\A body \in ChatBodies :
          (EmptyChatBody(body) /\ main_create_chat_completion(body)) =>
              /\ 0 \in DOMAIN task'
              /\ task'[0].response.status_code \in {400, 422}
              /\ task'[0].body = body
              /\ UNCHANGED <<metrics_collector, llm_interaction_logger, next_id,
                             effects>>
              /\ \A r \in Started \ {0} : task'[r] = task[r]]_vars

\* An empty chat body was rejected with 400 while another request was
\* being served.
C25_Witness ==
    /\ Answered("/v1/chat/completions")
    /\ EmptyChatBody(task[0].body)
    /\ task[0].body.model # None
    /\ task[0].response.status_code = 400
    /\ metrics_collector.active_requests # <<>>

\* The completed entries of request r, oldest first.
CompletedEntries(r) ==
    SelectSeq(metrics_collector.completed_requests,
              LAMBDA m : m.request_id = r)

\* C26: when a non-streaming chat call returned a response for a provider
\* response that reports usage with prompt p and completion c, the returned
\* usage.total_tokens is p + c, and the collector holds exactly one
\* completed entry for the request, with success = TRUE and
\* total_tokens = p + c.
C26_TotalIsSum ==
    \A r \in Started :
        (/\ task[r].kind = "chat"
         /\ task[r].pc = "returned"
         /\ task[r].result[1].usage # <<>>) =>
            LET usage == task[r].result[1].usage[1]
                sum == usage.prompt_tokens + usage.completion_tokens
            IN  /\ usage.total_tokens = sum
                /\ Len(CompletedEntries(r)) = 1
                /\ CompletedEntries(r)[1].success
                /\ CompletedEntries(r)[1].total_tokens = sum

\* C26, the part that holds: the one completed entry of such a request has
\* success = TRUE and total_tokens = p + c.
C26_EntryIsSum ==
    \A r \in Started :
        (/\ task[r].kind = "chat"
         /\ task[r].pc = "returned"
         /\ task[r].result[1].usage # <<>>) =>
            LET usage == task[r].result[1].usage[1]
                sum == usage.prompt_tokens + usage.completion_tokens
            IN  /\ Len(CompletedEntries(r)) = 1
                /\ CompletedEntries(r)[1].success
                /\ CompletedEntries(r)[1].total_tokens = sum

\* The call of the estimator that returned last.
Estimated == task # <<>> /\ task[1].kind = "estimate"

han_count(text) ==
    Cardinality({i \in 1..Len(text) : text[i] \in HanFirst..HanLast})

other_count(text) == Len(text) - han_count(text)

\* n / d rounded to the nearest integer, a half to the even one (round()).
Round(n, d) ==
    LET q == n \div d
        twice == 2 * (n % d)
    IN  IF twice < d THEN q
        ELSE IF twice > d THEN q + 1
        ELSE IF q % 2 = 0 THEN q ELSE q + 1

\* C28 as stated: the estimate of a text is
\* round(han_count / 1.5 + other_count / 4.0), raised to 1 for a nonempty
\* text, and 0 for the empty text.
C28_Original ==
    Estimated =>
        LET text == task[1].text
        IN  task[1].tokens =
                IF text = <<>> THEN 0
                ELSE Max(1, Round(8 * han_count(text) + 3 * other_count(text), 12))

\* C28: the estimate of a text is han_count / 1.5 + other_count / 4.0 with
\* its fraction dropped, raised to 1 for a nonempty text, and 0 for the
\* empty text; han_count counts the code points in U+4E00..U+9FFF.
C28_EstimateTruncates ==
    Estimated =>
        LET text == task[1].text
            h == han_count(text)
            o == other_count(text)
            n == task[1].tokens
        IN  /\ text = <<>> => n = 0
            /\ text # <<>> =>
                  /\ n >= 1
                  /\ \/ n = 1 /\ 8 * h + 3 * o < 24
                     \/ 12 * n <= 8 * h + 3 * o /\ 8 * h + 3 * o < 12 * (n + 1)

\* A text of two Chinese and two other code points, both ends of the range
\* among them: 1.83 is estimated as 1.
C28_Witness ==
    /\ Estimated
    /\ task[1].text = <<HanFirst, HanLast, HanFirst - 1, HanLast + 1>>
    /\ task[1].tokens = 1

\* The code points of a text of the service run: these texts hold no
\* Chinese character, so each character counts as one outside the range.
AsciiText(s) == [i \in 1..Len(s) |-> HanFirst - 1]

\* The joined input message text of a downstream request whose contents
\* are strings.
JoinedInput(llm_request) ==
    LET contents == SelectSeq([i \in 1..Len(llm_request.messages) |->
                                  llm_request.messages[i].content], Truthy)
    IN  JoinWith(" ", [i \in 1..Len(contents) |-> contents[i].text])

\* The usage the provider supplied on the stream: <<>> when no fragment
\* carried one, else the last one.
SuppliedUsage(received) ==
    LET with == SelectSeq(received, LAMBDA chunk : chunk.usage # <<>>)
    IN  IF with = <<>> THEN <<>> ELSE with[Len(with)].usage

\* C27: when a stream was exhausted, the prompt_tokens and completion_tokens
\* recorded for the request are the provider's when the provider supplied
\* usage, and otherwise the token estimates of the joined input message
\* text and of the accumulated content.
C27_UsageOrEstimate ==
    \A r \in StreamTasks :
        (task[r].pc = "yielded_done" /\ CompletedEntries(r) # <<>>) =>
            LET entry == CompletedEntries(r)[1]
                usage == SuppliedUsage(task[r].received)
            IN  IF usage # <<>>
                THEN /\ entry.prompt_tokens = usage[1].prompt_tokens
                     /\ entry.completion_tokens = usage[1].completion_tokens
                ELSE /\ entry.prompt_tokens =
                            calculate_tokens_estimate(
                                AsciiText(JoinedInput(task[r].llm_request)))
                     /\ entry.completion_tokens =
                            calculate_tokens_estimate(
                                AsciiText(task[r].accumulated_content))

\* C27 for the streams on which the provider supplied no usage.
C27_EstimateWithoutUsage ==
    \A r \in StreamTasks :
        (/\ task[r].pc = "yielded_done" /\ CompletedEntries(r) # <<>>
         /\ SuppliedUsage(task[r].received) = <<>>) =>
            LET entry == CompletedEntries(r)[1]
            IN  /\ entry.prompt_tokens =
                       calculate_tokens_estimate(
                           AsciiText(JoinedInput(task[r].llm_request)))
                /\ entry.completion_tokens =
                       calculate_tokens_estimate(
                           AsciiText(task[r].accumulated_content))

\* The last call handed the logger an embedding payload and a record was
\* written for it.
LoggedEmbeddings ==
    /\ task # <<>> /\ task[1].kind = "logger_call"
    /\ task[1].pc = "complete_embedding"
    /\ task[1].emitted # <<>>

\* C29: in the record written for an embedding payload, a float-array
\* embedding has at most 4 elements (the first 3 and a marker), a base64
\* embedding at most 13 characters (the first 10 and a marker), and an
\* embedding of at most 3 elements / 10 characters is written as it came.
C29_TruncationBound ==
    LoggedEmbeddings =>
        LET passed == task[1].response_data.data
            logged == task[1].emitted[1].downstream_response[1].data
        IN  /\ Len(logged) = Len(passed)
            /\ \A i \in 1..Len(passed) :
                  LET e == passed[i].embedding
                      l == logged[i].embedding
                  IN  /\ l.kind = e.kind
                      /\ Len(l.items) <= 4
                      /\ Len(l.text) <= 13
                      /\ (Len(e.items) <= 3 /\ Len(e.text) <= 10) => l = e
                      /\ Len(e.items) > 3 =>
                            l.items = SubSeq(e.items, 1, 3) \o <<"...">>
                      /\ Len(e.text) > 10 =>
                            l.text = SubSeq(e.text, 1, 10) \o <<".", ".", ".">>

\* A payload with a base64 embedding of more than 10 characters and a float
\* array of more than 3 elements was logged.
C29_Witness ==
    /\ LoggedEmbeddings
    /\ Len(task[1].response_data.data) = 2
    /\ Len(task[1].response_data.data[1].embedding.text) > 10
    /\ Len(task[1].response_data.data[2].embedding.items) > 3
    /\ Len(task[1].emitted[1].downstream_response[1].data[1].embedding.text) = 13
    /\ Len(task[1].emitted[1].downstream_response[1].data[2].embedding.items) = 4

\* The last call was GET /metrics/trends.
TrendsReturned == task # <<>> /\ task[1].kind = "trends_call"

\* The trends hold n entries each, the oldest hour first and the hour of
\* the call last, with the collector's count for each hour.
TrendsCover(trends, n, current_time) ==
    /\ Len(trends.hours) = n /\ Len(trends.requests) = n
    /\ Len(trends.tokens) = n /\ Len(trends.errors) = n
    /\ \A j \in 1..n :
          LET key == HourKey(current_time) - (n - j)
          IN  /\ trends.hours[j] = key % HoursPerDay
              /\ trends.requests[j] =
                    IF key \in DOMAIN metrics_collector.hourly_stats
                    THEN metrics_collector.hourly_stats[key].requests ELSE 0

\* C30: GET /metrics/trends clamps `hours` to 1..168 (below 1 is taken as 1,
\* above 168 as 168) and each returned list has that many entries, from the
\* oldest hour to the current one.
C30_HoursClamped ==
    TrendsReturned =>
        LET hours == task[1].hours
            clamped == IF hours < 1 THEN 1
                       ELSE IF hours > MaxTrendHours THEN MaxTrendHours
                       ELSE hours
        IN  TrendsCover(task[1].returned, clamped, task[1].current_time)

\* C30, the part that holds: for `hours` within 1..168 each returned list
\* has `hours` entries, oldest first; any other value returns the 24
\* entries of the default.
C30_InRangeOrDefault ==
    TrendsReturned =>
        LET hours == task[1].hours
        IN  TrendsCover(task[1].returned,
                        IF hours < 1 \/ hours > MaxTrendHours
                        THEN DefaultTrendHours ELSE hours,
                        task[1].current_time)

\* C31: reset_stats leaves the collector with an empty active set, an empty
\* history, every counter at zero and no per-model or hourly aggregate, and
\* no other call sees it half done; a complete_request for a request that
\* was active when the reset ran never raises, returns no entry and leaves
\* the history and the counters as they were.
C31_ResetClearsAtomically ==
    [][/\ \A th \in DOMAIN task :
             (ThreadAt(th, "reset_counters") /\ task'[th].pc = "done") =>
                 metrics_collector' =
                     MetricsCollectorInit(metrics_collector.max_history)
       /\ \A th \in DOMAIN task' : task'[th].pc # "raised"
       /\ \A th \in DOMAIN task :
             (/\ ThreadAt(th, "complete_check") /\ task'[th].pc = "done"
              /\ task[th].request_id \notin DOMAIN metrics_collector.active_requests) =>
                 /\ task'[th].result = <<"None">>
                 /\ metrics_collector' = Released(metrics_collector)
                 /\ effects' = effects]_vars

\* A request was started, a reset ran while it was active, and the
\* complete_request made for it afterwards returned no entry: the history
\* and the counters are still empty.
C31_Witness ==
    \E th \in DOMAIN task, rs \in DOMAIN task :
        /\ task[th].op = "complete_request" /\ task[th].pc = "done"
        /\ task[th].was_started /\ task[th].result = <<"None">>
        /\ effects[task[th].request_id] = <<>>
        /\ task[rs].op = "reset_stats" /\ task[rs].pc = "done"
        /\ metrics_collector = MetricsCollectorInit(DefaultMaxHistory)

\* The flattening returned: its content, the text and the forwarded content.
Flattened == task # <<>> /\ task[1].kind = "flatten" /\ task[1].pc = "returned"

\* The text a block stands for: its text field when present, else
\* [image:<url>] for an image block, else its JSON serialization.
BlockText(block) ==
    IF block.text # <<>> THEN block.text[1]
    ELSE IF block.type = "image_url" /\ block.image_url.kind = "dict"
    THEN <<"[image:">> \o block.image_url.url \o <<"]">>
    ELSE JsonDumps(block)

\* An image block whose image_url names no url.
NoUrl(block) ==
    /\ block.text = <<>> /\ block.type = "image_url"
    /\ block.image_url.kind = "dict" /\ block.image_url.url = <<>>

\* C32 as stated: null is flattened to the empty string, a string to
\* itself, a list of blocks to the newline-joined texts of its blocks in
\* block order; the content forwarded downstream is the content as it came.
C32_Original ==
    Flattened =>
        LET content == task[1].content
            returned == task[1].returned[1]
        IN  /\ content.kind = "null" => returned = <<>>
            /\ content.kind = "str" => returned = content.text
            /\ content.kind = "list" =>
                  /\ returned = JoinLines([i \in 1..Len(content.blocks) |->
                                              BlockText(content.blocks[i])])
                  /\ task[1].forwarded[1] = content

\* C32: null is flattened to the empty string, a string to itself, a list of
\* blocks to the newline-joined texts of its blocks in block order, where a
\* block whose text is empty and an image block without url add nothing,
\* with the whitespace at both ends of the result removed; a string or list
\* content is forwarded downstream as it came.
C32_FlattenSkipsEmptyAndStrips ==
    Flattened =>
        LET content == task[1].content
            returned == task[1].returned[1]
        IN  /\ content.kind = "null" => returned = <<>>
            /\ content.kind = "str" =>
                  returned = content.text /\ task[1].forwarded[1] = content
            /\ content.kind = "list" =>
                  LET kept == SelectSeq(content.blocks,
                                  LAMBDA block : ~NoUrl(block) /\ BlockText(block) # <<>>)
                  IN  /\ returned = Strip(JoinLines([i \in 1..Len(kept) |->
                                                       BlockText(kept[i])]))
                      /\ task[1].forwarded[1] = content

\* A list with an empty text block between two texts, the last ending in a
\* newline: the flattened text has neither the empty line nor the newline.
C32_Witness ==
    /\ Flattened
    /\ task[1].content.kind = "list"
    /\ Len(task[1].content.blocks) = 3
    /\ task[1].content.blocks[1].text = <<<<"a">>>>
    /\ task[1].content.blocks[2].text = <<<<>>>>
    /\ task[1].content.blocks[3].text = <<<<"c", "\n">>>>
    /\ task[1].returned = <<<<"a", "\n", "c">>>>

RECURSIVE LastFinishReason(_)
\* The finish_reason of the last fragment that carried one, None when no
\* fragment did.
LastFinishReason(received) ==
    IF received = <<>> THEN None
    ELSE LET last == received[Len(received)]
         IN  IF last.choices # <<>> /\ last.choices[1].finish_reason # None
             THEN last.choices[1].finish_reason
             ELSE LastFinishReason(SubSeq(received, 1, Len(received) - 1))

\* C33: at every step of a stream the finish reason held is that of the
\* last fragment that carried one (None when none did), and the summary of
\* a stream that ended reports it.
C33_LastFinishReasonWins ==
    \A r \in StreamTasks :
        /\ task[r].finish_reason = LastFinishReason(task[r].received)
        /\ task[r].pc = "yielded_done" =>
              \A i \in 1..Len(SinkRecords(r)) :
                  SinkRecords(r)[i].status = "success" =>
                      SinkRecords(r)[i].downstream_response[1].finish_reason
                          = LastFinishReason(task[r].received)

\* A stream that ended after two fragments with different finish reasons
\* and then one without: the summary reports the second reason.
C33_Witness ==
    \E r \in StreamTasks :
        /\ task[r].pc = "yielded_done"
        /\ Len(task[r].received) = 3
        /\ task[r].received[1] = FinishFragment("tool_calls")
        /\ task[r].received[2] = FinishFragment("length")
        /\ task[r].received[3].choices # <<>>
        /\ task[r].received[3].choices[1].finish_reason = None
        /\ SinkRecords(r) # <<>>
        /\ SinkRecords(r)[1].downstream_response[1].finish_reason = "length"

\* The accumulator entries of a call id, and the arguments and the name
\* accumulated for it ("" and None before its entry exists).
EntriesOf(acc, id) == SelectSeq(acc, LAMBDA entry : entry.id = id)

ArgumentsOf(acc, id) ==
    IF EntriesOf(acc, id) = <<>> THEN "" ELSE EntriesOf(acc, id)[1].function.arguments

NameOf(acc, id) ==
    IF EntriesOf(acc, id) = <<>> THEN None ELSE EntriesOf(acc, id)[1].function.name

\* The argument piece and the name a delta carries ("" and None when it
\* carries none).
PieceOf(function) ==
    IF function = <<>> \/ function[1].arguments = None THEN "" ELSE function[1].arguments

NameIn(function) == IF function = <<>> THEN None ELSE function[1].name

\* A fragment with a choice arrived on stream r in this step.
Arrived(r) ==
    /\ Len(task'[r].received) = Len(task[r].received) + 1
    /\ task'[r].received[Len(task'[r].received)].choices # <<>>

\* C34: when a fragment arrives, the arguments accumulated for the call id
\* of its tool-call delta, and for the legacy function call, grow by
\* exactly the delta's argument piece; the accumulated name changes only to
\* a non-empty name the delta carries; and the delta's call id has exactly
\* one accumulator entry afterwards.
C34_AppendOnly ==
    [][\A r \in StreamTasks :
          Arrived(r) =>
              LET d == task'[r].received[Len(task'[r].received)].choices[1].delta
                  acc == task[r].tool_call_accumulator
                  acc2 == task'[r].tool_call_accumulator
                  fc == task[r].function_call_accumulator
                  fc2 == task'[r].function_call_accumulator
              IN  /\ (/\ Len(d.tool_calls) = 1
                      /\ d.tool_calls[1].id # None
                      /\ d.tool_calls[1].function # <<>>) =>
                        LET tc == d.tool_calls[1]
                        IN  /\ ArgumentsOf(acc2, tc.id) =
                                  ArgumentsOf(acc, tc.id) \o PieceOf(tc.function)
                            /\ NameOf(acc2, tc.id) # NameOf(acc, tc.id) =>
                                  /\ StrTruthy(NameIn(tc.function))
                                  /\ NameOf(acc2, tc.id) = NameIn(tc.function)
                            /\ Len(EntriesOf(acc2, tc.id)) = 1
                  /\ d.function_call # <<>> =>
                        (IF fc2 = <<>> THEN "" ELSE fc2[1].arguments) =
                            (IF fc = <<>> THEN "" ELSE fc[1].arguments)
                                \o PieceOf(d.function_call)]_vars

\* C34, the part that holds: a buffer is never replaced or shortened (it
\* stays as it was or grows by the delta's piece), a name changes only to a
\* non-empty name the delta carries, and no call id has two entries.
C34_NeverReplaced ==
    [][\A r \in StreamTasks :
          Arrived(r) =>
              LET d == task'[r].received[Len(task'[r].received)].choices[1].delta
                  acc == task[r].tool_call_accumulator
                  acc2 == task'[r].tool_call_accumulator
                  fc == task[r].function_call_accumulator
                  fc2 == task'[r].function_call_accumulator
              IN  /\ (Len(d.tool_calls) = 1 /\ d.tool_calls[1].id # None) =>
                        LET tc == d.tool_calls[1]
                        IN  /\ ArgumentsOf(acc2, tc.id) \in
                                  { ArgumentsOf(acc, tc.id),
                                    ArgumentsOf(acc, tc.id) \o PieceOf(tc.function) }
                            /\ NameOf(acc2, tc.id) # NameOf(acc, tc.id) =>
                                  /\ StrTruthy(NameIn(tc.function))
                                  /\ NameOf(acc2, tc.id) = NameIn(tc.function)
                            /\ Len(EntriesOf(acc2, tc.id)) <= 1
                  /\ \A i \in 1..Len(acc) : acc2[i].id = acc[i].id
                  /\ d.function_call # <<>> =>
                        (IF fc2 = <<>> THEN "" ELSE fc2[1].arguments) =
                            (IF fc = <<>> THEN "" ELSE fc[1].arguments)
                                \o PieceOf(d.function_call)]_vars

\* C35: whenever the caller of a stream holds the [DONE] event, the request
\* is out of the active set, the completed history holds it with
\* success = TRUE, and its interaction is out of the logger's live table
\* and written to the sink.
C35_DoneAfterCompletions ==
    \A r \in StreamTasks :
        (\E i \in 1..Len(task[r].out) : task[r].out[i] = DoneEvent) =>
            /\ r \notin DOMAIN metrics_collector.active_requests
            /\ InHistory(r, TRUE)
            /\ r \notin DOMAIN llm_interaction_logger.interactions
            /\ SinkRecords(r) # <<>>

\* A stream that yielded a chunk and then the sentinel, with its completion
\* in the history.
C35_Witness ==
    \E r \in StreamTasks :
        /\ task[r].pc = "yielded_done"
        /\ Len(ChunkEvents(task[r].out)) >= 1
        /\ task[r].out[Len(task[r].out)] = DoneEvent
        /\ InHistory(r, TRUE)

\* C36: for every request that ended, the completed history holds it with
\* success = TRUE exactly when its caller got a normal result (the call
\* returned its response, or the stream ended with [DONE]); a request whose
\* caller got an exception or an error event is not recorded as a success.
C36_SuccessAgrees ==
    \A r \in Started :
        Terminated(r) =>
            (InHistory(r, TRUE) <=> task[r].pc \in {"returned", "yielded_done"})

\* C36, the part that holds: a request whose caller got a normal result is
\* recorded with success = TRUE, and a stream whose caller got an error
\* event is recorded with success = FALSE.
C36_NormalResultIsSuccess ==
    \A r \in Started :
        /\ task[r].pc \in {"returned", "yielded_done"} => InHistory(r, TRUE)
        /\ task[r].pc = "yielded_error" => InHistory(r, FALSE) /\ ~InHistory(r, TRUE)

\* C37: in every state, the active_requests value get_current_stats
\* returns is the number of entries of the active set, also while no
\* request has completed.
C37_ActiveCountReported ==
    \A now \in StartTimes :
        get_current_stats(metrics_collector, now).active_requests =
            Cardinality(DOMAIN metrics_collector.active_requests)

\* C37, the part that holds: once a request has been counted, the reported
\* value is the size of the active set.
C37_ActiveCountAfterFirstCompletion ==
    \A now \in StartTimes :
        metrics_collector.total_requests > 0 =>
            get_current_stats(metrics_collector, now).active_requests =
                Cardinality(DOMAIN metrics_collector.active_requests)

\* The newest-first list the claim describes: the min(limit, size) last
\* entries of the history, the last one first.
NewestFirst(history, limit) ==
    LET n == IF limit <= Len(history) THEN limit ELSE Len(history)
    IN  [i \in 1..n |-> history[Len(history) + 1 - i]]

\* C38: for every limit >= 0, get_recent_requests(limit) returns the
\* min(limit, history size) most recently completed requests, newest
\* first, so never more than `limit` entries.
C38_RecentAtMostLimit ==
    \A limit \in 0..(MaxHistory + 1) :
        LET recent == get_recent_requests(metrics_collector, limit)
        IN  /\ Len(recent) <= limit
            /\ recent = NewestFirst(metrics_collector.completed_requests, limit)

\* C38, the part that holds: the same for every limit >= 1.
C38_RecentForPositiveLimit ==
    \A limit \in 1..(MaxHistory + 1) :
        LET recent == get_recent_requests(metrics_collector, limit)
        IN  /\ Len(recent) <= limit
            /\ recent = NewestFirst(metrics_collector.completed_requests, limit)

RECURSIVE SumOver(_)
\* The sum of the values of a function with a finite domain.
SumOver(f) ==
    IF DOMAIN f = {} THEN 0
    ELSE LET k == CHOOSE k \in DOMAIN f : TRUE
         IN  f[k] + SumOver([j \in DOMAIN f \ {k} |-> f[j]])

HourlyRequests(mc) == SumOver([h \in DOMAIN mc.hourly_stats |-> mc.hourly_stats[h].requests])

HourlyErrors(mc) == SumOver([h \in DOMAIN mc.hourly_stats |-> mc.hourly_stats[h].errors])

\* C39: in every state total_requests equals the sum of the per-model
\* usage counts and the sum of the hourly request counts, success_count is
\* at most total_requests, and the hourly error counts sum to
\* total_requests - success_count; and total_requests counts the effective
\* completions since the last reset: a complete_request that returned an
\* entry adds one, reset_stats sets it to zero, no other call changes it.
C39_CountersConsistent ==
    /\ [](/\ metrics_collector.total_requests = SumOver(metrics_collector.model_usage)
          /\ metrics_collector.total_requests = HourlyRequests(metrics_collector)
          /\ metrics_collector.success_count <= metrics_collector.total_requests
          /\ HourlyErrors(metrics_collector) =
                metrics_collector.total_requests - metrics_collector.success_count)
    /\ [][/\ task' # <<>>
          /\ task'[1].kind = "collector_call"
          /\ metrics_collector'.total_requests =
                CASE task'[1].pc = "reset_stats" -> 0
                  [] task'[1].pc = "complete_request" /\ task'[1].returned ->
                        metrics_collector.total_requests + 1
                  [] OTHER -> metrics_collector.total_requests]_vars

\* Three requests completed, the first before a reset: the two counted
\* since are of two models in two hours, one of them a failure.
C39_Witness ==
    /\ LastCollectorCall("complete_request")
    /\ task[1].returned
    /\ metrics_collector.total_requests = 2
    /\ metrics_collector.success_count = 1
    /\ Cardinality(DOMAIN metrics_collector.model_usage) = 2
    /\ Cardinality(DOMAIN metrics_collector.hourly_stats) = 2
    /\ \A r \in 1..3 : Len(effects[r]) = 1

\* C40: for every model, the request count get_model_stats reports equals
\* the models_used count get_current_stats reports (a model missing from a
\* view counts zero there), also after more completions than max_history.
C40_ModelViewsAgree ==
    LET model_stats == get_model_stats(metrics_collector)
        models_used == get_current_stats(metrics_collector, SecondsPerHour).models_used
    IN  \A m \in Models :
            (IF m \in DOMAIN model_stats THEN model_stats[m].requests ELSE 0) =
                (IF m \in DOMAIN models_used THEN models_used[m] ELSE 0)

\* C40, the part that holds: the views agree while no more requests have
\* been counted than the history holds.
C40_ModelViewsAgreeWithinHistory ==
    metrics_collector.total_requests = Len(metrics_collector.completed_requests) =>
        LET model_stats == get_model_stats(metrics_collector)
            models_used == get_current_stats(metrics_collector, SecondsPerHour).models_used
        IN  \A m \in Models :
                (IF m \in DOMAIN model_stats THEN model_stats[m].requests ELSE 0) =
                    (IF m \in DOMAIN models_used THEN models_used[m] ELSE 0)

====
